---------------------------- MODULE Spec2Model ----------------------------
(***************************************************************************)
(* PROMICE_processing_tools.py: load_data, BIC_processing (with its inner  *)
(* DPT_processing) and BIC_composite.                                      *)
(*                                                                         *)
(* Numbers.  Depths and albedos are kept in units of 0.001 (a depth of     *)
(* -2.6 m is -2600, the albedo bias 0.034 is 34); every number of the      *)
(* correction table has at most three decimals.  A sample is an option:    *)
(* NaN is the empty tuple and the number v is <<v>>.  The baselined depth  *)
(* DPT_processing returns is z - mean, an exact fraction: it is kept as    *)
(* <<num, den>> with den the number of samples the mean was taken over.    *)
(* The values are exact; where a comparison of the code falls on equal     *)
(* exact values, the float64 arithmetic of the code is computed to decide. *)
(***************************************************************************)
EXTENDS Integers, Sequences, FiniteSets, TLC

VARIABLES
  site,          \* global site, set by load_data (line 36)
  yr,            \* global yr, set by load_data (line 49)
  z,             \* global z of DPT_processing (line 110): the depth series
  df_y,          \* the rows of one year, handed to DPT_processing (line 1024)
  df_y_init,     \* the copy of df_y taken before the call (line 1025)
  y,             \* the year handed to DPT_processing (line 1022)
  files,         \* the files of inpath that glob finds (line 1143)
  inpath,        \* what follows the last separator of inpath: the start of
                 \* the names of these files, "" for a directory
  dt,            \* BIC_composite's dt
  sites,         \* BIC_composite: the sites still to visit (line 1169)
  promice_data,  \* the table the caller holds: what load_data returned
  loaded,        \* the site and year selection of the load_data call that
                 \* returned promice_data
  df_corr,       \* what BIC_processing returned (line 1176)
  years,         \* BIC_composite: the years still to visit (line 1180)
  composite,     \* BIC_composite: the four stacks of rows (line 1164)
  station_years, \* BIC_composite: station_years (line 1166)
  stations,      \* BIC_composite: stations (line 1167)
  ret,           \* what the last call returned or raised
  pc             \* where the caller is

\* the state of DPT_processing and of its caller
dvars == <<z, df_y, df_y_init, y>>
\* the state of BIC_composite
cvars == <<files, inpath, dt, sites, promice_data, df_corr, years, composite,
           station_years, stations>>
vars == <<site, yr, dvars, cvars, loaded, ret, pc>>

NaN == <<>>
Num(v) == <<v>>

\* ------------------------------------------------------------------------
\* The correction table of DPT_processing (lines 129-924), one entry per
\* (site, year).  An entry is what the branch assigns and the ordered list
\* of what it does to z.

\* boolean masks: doy <rel> n, z <rel> c, np.isnan(z)
DoyGt(n) == [k |-> "doy", rel |-> ">",  n |-> n]
DoyGe(n) == [k |-> "doy", rel |-> ">=", n |-> n]
DoyLt(n) == [k |-> "doy", rel |-> "<",  n |-> n]
DoyLe(n) == [k |-> "doy", rel |-> "<=", n |-> n]
DoyEq(n) == [k |-> "doy", rel |-> "=",  n |-> n]
ZGt(c) == [k |-> "z", rel |-> ">",  n |-> c]
ZGe(c) == [k |-> "z", rel |-> ">=", n |-> c]
ZLt(c) == [k |-> "z", rel |-> "<",  n |-> c]
ZLe(c) == [k |-> "z", rel |-> "<=", n |-> c]
IsNan == [k |-> "isnan", rel |-> "", n |-> 0]

\* z[cond] -= v
Sub(cond, v) == [op |-> "sub", cond |-> cond, val |-> v, arg |-> <<>>]
\* z[cond] += v
Add(cond, v) == [op |-> "add", cond |-> cond, val |-> v, arg |-> <<>>]
\* z[cond] = np.nan
SetNan(cond) == [op |-> "nan", cond |-> cond, val |-> 0, arg |-> <<>>]
\* z[cond] = v
SetVal(cond, v) == [op |-> "set", cond |-> cond, val |-> v, arg |-> <<>>]
\* z[cond] -= np.nan (TAS_L 2013, line 830)
SubNan(cond) == [op |-> "subnan", cond |-> cond, val |-> 0, arg |-> <<>>]
\* z[cond] -= z[other] (KAN_L 2017, line 481)
SubSel(cond, other) == [op |-> "subsel", cond |-> cond, val |-> 0, arg |-> other]
\* assign_nans(days); assign_nans(d) with an int d is AssignNans(<<d>>)
AssignNans(days) == [op |-> "assign_nans", cond |-> <<>>, val |-> 0, arg |-> days]

\* A branch that assigns DPT_flag.  IAO is NaN when the branch assigns none.
Entry(flag, iao, aflag, adj) ==
  [bound |-> TRUE, no_proc |-> 0, DPT_flag |-> flag, IAO |-> iao,
   albedo_flag |-> aflag, adj |-> adj]
\* The else branch of a listed site: no_proc = 1 (lines 180, 253, ...).
NoProc ==
  [bound |-> FALSE, no_proc |-> 1, DPT_flag |-> 0, IAO |-> NaN,
   albedo_flag |-> 1, adj |-> <<>>]
\* No branch taken: DPT_flag is never assigned and no_proc stays 0.
Unbound ==
  [bound |-> FALSE, no_proc |-> 0, DPT_flag |-> 0, IAO |-> NaN,
   albedo_flag |-> 1, adj |-> <<>>]

\* NUK_U: source lines 129-180
Table_NUK_U(year) ==
  CASE year \in {2007, 2014, 2015} -> Entry(1, NaN, 1, <<>>)
    [] year \in {2008, 2009} -> Entry(0, NaN, 1, <<>>)
    [] year = 2010 ->
      Entry(3, <<121>>, 1,
        << Sub(<<DoyGt(203)>>, 2600),
           Sub(<<DoyGt(204)>>, 8800),
           SetNan(<<DoyGe(256)>>) >>)
    [] year = 2011 ->
      Entry(3, <<156>>, 0,
        << AssignNans(<<235>>),
           Sub(<<DoyGe(236)>>, 2000),
           SetNan(<<DoyGe(276)>>) >>)
    [] year = 2012 ->
      Entry(3, <<148>>, 1,
        << SetNan(<<DoyGe(260), ZGe(-3000)>>) >>)
    [] year = 2013 ->
      Entry(3, <<152>>, 1,
        << Sub(<<DoyGt(202)>>, 2000),
           Sub(<<DoyGt(203)>>, 5800) >>)
    [] year = 2016 ->
      Entry(3, <<160>>, 1,
        << SetNan(<<DoyGe(263)>>),
           SetNan(<<DoyLe(70), ZLe(-500)>>),
           SetNan(<<DoyGt(38), DoyLt(43)>>),
           AssignNans(<<71, 72, 73, 74, 75>>),
           AssignNans(<<32, 92, 93>>) >>)
    [] year = 2017 ->
      Entry(3, <<204>>, 1,
        << SetNan(<<DoyGe(250), ZGe(-300)>>) >>)
    [] year = 2018 ->
      Entry(3, <<161>>, 1,
        << SetNan(<<DoyLe(103)>>),
           Sub(<<DoyGe(212)>>, 8000),
           AssignNans(<<123, 124, 210, 211>>),
           Sub(<<DoyGe(210)>>, 1250) >>)
    [] year = 2019 ->
      Entry(3, <<128>>, 1,
        << SetNan(<<DoyLt(97)>>) >>)
    [] OTHER -> NoProc

\* NUK_L: source lines 182-253
Table_NUK_L(year) ==
  CASE year = 2007 -> Entry(1, NaN, 1, <<>>)
    [] year = 2008 ->
      Entry(3, <<121>>, 1,
        << Sub(<<DoyGt(212)>>, 7100),
           Sub(<<DoyGt(211)>>, 5000),
           AssignNans(<<156>>) >>)
    [] year = 2009 ->
      Entry(3, <<136>>, 1,
        << AssignNans(<<90, 92, 95, 102, 105, 142, 154, 159, 169, 174>>),
           Sub(<<DoyGt(236)>>, 500) >>)
    [] year = 2010 ->
      Entry(3, <<107>>, 1,
        << AssignNans(<<207>>),
           Sub(<<DoyGt(206)>>, 11100),
           SetNan(<<DoyGt(264)>>) >>)
    [] year = 2011 ->
      Entry(3, <<156>>, 0,
        << AssignNans(<<210, 238, 239, 240>>),
           Sub(<<DoyGt(209)>>, 1150),
           Sub(<<DoyGe(237), DoyLe(239)>>, 400),
           Sub(<<DoyGe(241), DoyLe(242)>>, 200),
           SetNan(<<DoyGt(280)>>) >>)
    [] year = 2012 ->
      Entry(3, <<150>>, 1,
        << AssignNans(<<241>>),
           Sub(<<DoyGt(241)>>, 12000) >>)
    [] year = 2013 ->
      Entry(3, <<155>>, 0,
        << AssignNans(<<23, 24, 204>>),
           Add(<<DoyGt(24)>>, 2600),
           Sub(<<DoyGt(204)>>, 5250) >>)
    [] year = 2014 ->
      Entry(3, <<121>>, 1,
        << Sub(<<DoyGt(206)>>, 2500),
           Sub(<<DoyGt(207)>>, 3350),
           AssignNans(<<54, 55>>) >>)
    [] year = 2015 -> Entry(3, <<159>>, 1, <<>>)
    [] year = 2016 -> Entry(3, <<100>>, 1, <<>>)
    [] year = 2017 ->
      Entry(3, <<142>>, 1,
        << AssignNans(<<117, 118, 219, 220, 233, 234, 235>>),
           Sub(<<DoyGt(117)>>, 14920),
           Sub(<<DoyGe(142)>>, 500) >>)
    [] year = 2018 ->
      Entry(2, NaN, 1,
        << AssignNans(<<194, 196, 211>>),
           Sub(<<DoyGt(59)>>, 14750),
           Add(<<DoyGe(197), DoyLe(210)>>, 7350),
           Add(<<DoyGe(194), DoyLe(211)>>, 270),
           SetNan(<<DoyGe(50), DoyLe(70)>>) >>)
    [] year = 2019 -> Entry(3, <<97>>, 0, <<>>)
    [] OTHER -> NoProc

\* NUK_N: source lines 255-274
Table_NUK_N(year) ==
  CASE year \in {2010, 2013} -> Entry(1, NaN, 1, <<>>)
    [] year = 2011 ->
      Entry(3, <<164>>, 1,
        << SetNan(<<DoyGe(280)>>) >>)
    [] year = 2012 ->
      Entry(3, <<158>>, 1,
        << SetNan(<<DoyGe(240)>>),
           SetNan(<<DoyGe(90), DoyLe(156), ZLt(0)>>),
           AssignNans(<<96>>),
           Sub(<<DoyEq(168)>>, 190),
           AssignNans(<<145, 146, 147, 148, 149, 150, 151>>) >>)
    [] year = 2014 -> Entry(3, <<165>>, 1, <<>>)
    [] OTHER -> NoProc

\* NUK_K: source lines 276-300
Table_NUK_K(year) ==
  CASE year = 2014 ->
      Entry(2, NaN, 1,
        << Add(<<DoyGe(225), DoyLe(238)>>, 1190),
           AssignNans(<<239>>) >>)
    [] year = 2015 -> Entry(3, <<200>>, 1, <<>>)
    [] year = 2016 ->
      Entry(3, <<166>>, 1,
        << AssignNans(<<23, 24, 124>>) >>)
    [] year = 2017 -> Entry(3, <<204>>, 1, <<>>)
    [] year = 2018 ->
      Entry(3, <<176>>, 1,
        << AssignNans(<<177>>),
           Add(<<DoyGt(177)>>, 70) >>)
    [] year = 2019 ->
      Entry(3, <<176>>, 1,
        << AssignNans(<<94, 127, 128, 129>>) >>)
    [] OTHER -> NoProc

\* UPE_L: source lines 302-353
Table_UPE_L(year) ==
  CASE year = 2009 ->
      Entry(1, NaN, 1,
        << SetNan(<<DoyGe(120)>>) >>)
    [] year = 2010 ->
      Entry(3, <<129>>, 1,
        << AssignNans(<<271, 272, 273, 274>>) >>)
    [] year = 2011 ->
      Entry(3, <<157>>, 1,
        << SetNan(<<DoyGe(262), DoyLe(311)>>) >>)
    [] year = 2012 ->
      Entry(3, <<148>>, 1,
        << Sub(<<DoyGt(150)>>, 300),
           Add(<<DoyGt(151)>>, 200),
           Add(<<DoyGt(152)>>, 100),
           Sub(<<DoyGe(225)>>, 100),
           Sub(<<DoyGe(226)>>, 150),
           SetNan(<<DoyGe(258), DoyLe(308)>>),
           AssignNans(<<149, 150, 152, 153>>) >>)
    [] year = 2013 ->
      Entry(3, <<160>>, 1,
        << SetNan(<<DoyLe(70)>>),
           AssignNans(<<74, 214, 215>>),
           SetNan(<<DoyGe(73), DoyLe(75)>>),
           Sub(<<DoyGe(214)>>, 15300) >>)
    [] year = 2014 ->
      Entry(3, <<158>>, 1,
        << SetNan(<<DoyGe(266), DoyLe(270)>>) >>)
    [] year = 2015 ->
      Entry(3, <<151>>, 1,
        << AssignNans(<<213>>),
           Sub(<<DoyGe(214)>>, 320),
           SetNan(<<DoyGe(253), DoyLe(261)>>) >>)
    [] year = 2016 -> Entry(0, NaN, 1, <<>>)
    [] year = 2017 -> Entry(1, NaN, 1, <<>>)
    [] year = 2018 -> Entry(3, <<167>>, 1, <<>>)
    [] year = 2019 ->
      Entry(3, <<124>>, 1,
        << SetNan(<<DoyLt(99)>>) >>)
    [] OTHER -> NoProc

\* UPE_U: source lines 355-387
Table_UPE_U(year) ==
  CASE year = 2009 -> Entry(1, NaN, 1, <<>>)
    [] year = 2010 ->
      Entry(3, <<143>>, 1,
        << AssignNans(<<114>>) >>)
    [] year = 2011 -> Entry(3, <<159>>, 1, <<>>)
    [] year = 2012 -> Entry(3, <<153>>, 1, <<>>)
    [] year \in {2013, 2018} -> Entry(2, NaN, 1, <<>>)
    [] year = 2014 -> Entry(3, <<171>>, 1, <<>>)
    [] year = 2015 ->
      Entry(2, NaN, 1,
        << Sub(<<DoyGe(216)>>, 5480),
           AssignNans(<<215>>) >>)
    [] year = 2016 -> Entry(3, <<183>>, 1, <<>>)
    [] year = 2017 -> Entry(3, <<190>>, 1, <<>>)
    [] year = 2019 -> Entry(3, <<161>>, 1, <<>>)
    [] OTHER -> NoProc

\* KPC_L: source lines 389-422
Table_KPC_L(year) ==
  CASE year \in {2008, 2010, 2012} -> Entry(1, NaN, 1, <<>>)
    [] year \in {2009, 2011} -> Entry(0, NaN, 1, <<>>)
    [] year = 2013 -> Entry(3, <<163>>, 1, <<>>)
    [] year = 2014 -> Entry(3, <<165>>, 1, <<>>)
    [] year = 2015 -> Entry(3, <<172>>, 1, <<>>)
    [] year = 2016 ->
      Entry(3, <<166>>, 1,
        << Sub(<<DoyGt(209)>>, 6297),
           AssignNans(<<210, 211>>),
           Sub(<<DoyGt(211)>>, 100) >>)
    [] year = 2017 -> Entry(3, <<160>>, 1, <<>>)
    [] year = 2018 -> Entry(2, NaN, 1, <<>>)
    [] year = 2019 ->
      Entry(3, <<163>>, 1,
        << Sub(<<DoyGt(192)>>, 4478),
           AssignNans(<<193>>) >>)
    [] OTHER -> NoProc

\* KPC_U: source lines 424-428
Table_KPC_U(year) ==
  CASE year \in {2008, 2009, 2010, 2011, 2012, 2013, 2014, 2015, 2016, 2017, 2018, 2019} -> Entry(1, NaN, 1, <<>>)
    [] OTHER -> NoProc

\* KAN_L: source lines 430-495
Table_KAN_L(year) ==
  CASE year = 2008 -> Entry(1, NaN, 1, <<>>)
    [] year = 2009 ->
      Entry(3, <<136>>, 1,
        << SetNan(<<DoyGe(250), ZGe(-3200)>>),
           SetVal(<<DoyGe(260), IsNan>>, -3500),
           AssignNans(<<276>>) >>)
    [] year = 2010 ->
      Entry(3, <<121>>, 1,
        << SetNan(<<DoyGe(260), ZGe(-5100)>>),
           Sub(<<DoyGe(280)>>, 100),
           SetVal(<<DoyGe(260), IsNan>>, -5450),
           AssignNans(<<136, 284>>) >>)
    [] year = 2011 ->
      Entry(3, <<156>>, 1,
        << Sub(<<DoyGt(155)>>, 4000),
           AssignNans(<<155>>) >>)
    [] year = 2012 ->
      Entry(3, <<149>>, 1,
        << Sub(<<DoyGe(234)>>, 11560),
           SetNan(<<DoyGe(282), DoyLe(298)>>),
           AssignNans(<<234, 235>>) >>)
    [] year = 2013 -> Entry(3, <<141>>, 1, <<>>)
    [] year = 2014 ->
      Entry(3, <<146>>, 1,
        << SetNan(<<DoyGe(290), DoyLe(319)>>),
           Add(<<DoyGt(133)>>, 70) >>)
    [] year = 2015 ->
      Entry(3, <<162>>, 1,
        << Sub(<<DoyGe(119)>>, 7080),
           AssignNans(<<118, 278>>),
           Sub(<<DoyGe(188)>>, 290) >>)
    [] year = 2016 ->
      Entry(3, <<100>>, 1,
        << Sub(<<DoyGt(198)>>, 1600),
           SetNan(<<DoyGe(260), ZGe(-4500)>>),
           SetNan(<<DoyGe(260), ZLe(-5500)>>),
           SetNan(<<DoyGe(273), DoyLe(280)>>),
           AssignNans(<<198>>) >>)
    [] year = 2017 ->
      Entry(3, <<123>>, 1,
        << Sub(<<DoyGt(244)>>, 3600),
           SubSel(<<DoyGt(58)>>, <<DoyEq(59)>>),
           AssignNans(<<244>>) >>)
    [] year = 2018 ->
      Entry(3, <<137>>, 1,
        << AssignNans(<<240>>),
           Sub(<<DoyGe(241)>>, 10650) >>)
    [] year = 2019 ->
      Entry(3, <<115>>, 1,
        << Sub(<<DoyGe(248)>>, 1300) >>)
    [] OTHER -> NoProc

\* KAN_M: source lines 497-524
Table_KAN_M(year) ==
  CASE year \in {2008, 2009, 2010, 2011} -> Entry(0, NaN, 1, <<>>)
    [] year = 2012 -> Entry(3, <<169>>, 1, <<>>)
    [] year = 2013 ->
      Entry(3, <<173>>, 1,
        << AssignNans(<<183>>) >>)
    [] year \in {2014, 2015} -> Entry(1, NaN, 1, <<>>)
    [] year = 2016 -> Entry(3, <<156>>, 1, <<>>)
    [] year = 2017 ->
      Entry(3, <<202>>, 1,
        << SetNan(<<DoyGt(100), DoyLt(135), ZGt(150)>>) >>)
    [] year = 2018 ->
      Entry(2, NaN, 1,
        << SetNan(<<DoyGe(238)>>) >>)
    [] year = 2019 ->
      Entry(3, <<172>>, 1,
        << SetNan(<<DoyGe(247)>>) >>)
    [] OTHER -> NoProc

\* QAS_M: source lines 526-545
Table_QAS_M(year) ==
  CASE year = 2016 -> Entry(2, NaN, 1, <<>>)
    [] year = 2017 ->
      Entry(1, NaN, 1,
        << AssignNans(<<141, 142, 143, 144, 145>>),
           AssignNans(<<151, 152, 187, 188>>),
           SetNan(<<DoyGe(196), DoyLe(236)>>) >>)
    [] year = 2018 ->
      Entry(3, <<192>>, 1,
        << Sub(<<DoyGt(242)>>, 5000),
           AssignNans(<<241, 242, 243>>),
           Sub(<<DoyGe(244)>>, 200) >>)
    [] year = 2019 ->
      Entry(3, <<178>>, 1,
        << Sub(<<DoyGe(242)>>, 4920) >>)
    [] OTHER -> NoProc

\* QAS_A: source lines 547-551
Table_QAS_A(year) ==
  CASE year \in {2012, 2013, 2014, 2015} -> Entry(0, NaN, 1, <<>>)
    [] OTHER -> NoProc

\* QAS_L: source lines 553-617
Table_QAS_L(year) ==
  CASE year \in {2007, 2009, 2013} -> Entry(1, NaN, 1, <<>>)
    [] year = 2008 ->
      Entry(3, <<121>>, 1,
        << Sub(<<DoyGe(219)>>, 7000),
           Add(<<DoyGe(277)>>, 5100),
           AssignNans(<<77, 78, 92, 103, 110, 220, 277>>),
           Sub(<<DoyGe(220)>>, 1900) >>)
    [] year = 2010 ->
      Entry(2, <<129>>, 1,
        << SetNan(<<DoyGe(127), DoyLe(128)>>),
           AssignNans(<<147>>),
           Sub(<<DoyGe(129), DoyLe(146), DoyLe(148)>>, 3500),
           SetNan(<<DoyGe(144), DoyLe(150)>>),
           Sub(<<DoyGe(129)>>, 1300) >>)
    [] year = 2011 ->
      Entry(3, <<155>>, 1,
        << SetNan(<<DoyGe(222)>>) >>)
    [] year = 2012 ->
      Entry(3, <<151>>, 1,
        << AssignNans(<<133, 134>>),
           Sub(<<DoyGt(132)>>, 550),
           Sub(<<DoyGt(230)>>, 800) >>)
    [] year = 2014 ->
      Entry(3, <<149>>, 1,
        << AssignNans(<<125, 235>>),
           Sub(<<DoyGt(124)>>, 1480),
           Sub(<<DoyGe(236)>>, 7900),
           Sub(<<DoyGt(159)>>, 80) >>)
    [] year = 2015 -> Entry(3, <<171>>, 1, <<>>)
    [] year = 2016 ->
      Entry(3, <<133>>, 1,
        << AssignNans(<<224>>),
           Sub(<<DoyGe(225)>>, 13300) >>)
    [] year = 2017 ->
      Entry(3, <<152>>, 1,
        << Sub(<<DoyGe(152)>>, 50) >>)
    [] year = 2018 ->
      Entry(3, <<155>>, 1,
        << AssignNans(<<123, 238>>),
           Sub(<<DoyGt(122)>>, 1000),
           Sub(<<DoyGt(132)>>, 900),
           Add(<<DoyGt(130)>>, 200),
           Sub(<<DoyGt(126)>>, 200),
           Sub(<<DoyGe(239)>>, 8200),
           AssignNans(<<123, 124, 125, 126, 127, 128, 129, 130, 131, 132>>),
           AssignNans(<<133, 134, 135, 136>>) >>)
    [] year = 2019 ->
      Entry(1, NaN, 1,
        << SetNan(<<DoyGt(142)>>),
           Sub(<<DoyGe(177)>>, 1000),
           Sub(<<DoyGe(140)>>, 400) >>)
    [] OTHER -> NoProc

\* QAS_U: source lines 619-649
Table_QAS_U(year) ==
  CASE year \in {2008, 2009, 2013} -> Entry(1, NaN, 1, <<>>)
    [] year = 2010 -> Entry(3, <<175>>, 1, <<>>)
    [] year \in {2011, 2015, 2018} -> Entry(2, NaN, 1, <<>>)
    [] year = 2012 -> Entry(3, <<196>>, 0, <<>>)
    [] year = 2014 -> Entry(3, <<206>>, 1, <<>>)
    [] year = 2016 ->
      Entry(3, <<202>>, 1,
        << SetNan(<<DoyGt(224)>>) >>)
    [] year = 2017 ->
      Entry(3, <<220>>, 1,
        << SetNan(<<DoyLe(143)>>) >>)
    [] year = 2019 ->
      Entry(3, <<200>>, 1,
        << Sub(<<DoyGe(243)>>, 2240),
           SetNan(<<DoyGe(241), DoyLe(242)>>),
           SetNan(<<DoyLe(100)>>) >>)
    [] OTHER -> NoProc

\* THU_L: source lines 651-679
Table_THU_L(year) ==
  CASE year \in {2010, 2011, 2012, 2013, 2018} -> Entry(1, NaN, 1, <<>>)
    [] year = 2014 ->
      Entry(3, <<177>>, 1,
        << SetNan(<<DoyGt(255)>>) >>)
    [] year = 2015 ->
      Entry(3, <<163>>, 1,
        << Add(<<DoyGe(20)>>, 100),
           Sub(<<DoyGe(182)>>, 300),
           Sub(<<DoyGe(260)>>, 200),
           SetNan(<<DoyGt(250)>>) >>)
    [] year = 2016 ->
      Entry(3, <<180>>, 1,
        << Sub(<<DoyGe(204)>>, 200) >>)
    [] year = 2017 -> Entry(3, <<194>>, 1, <<>>)
    [] year = 2019 ->
      Entry(3, <<161>>, 0,
        << SetNan(<<DoyGt(43), DoyLt(59)>>),
           SetNan(<<DoyLt(100), ZLt(-200)>>) >>)
    [] OTHER -> NoProc

\* THU_U: source lines 681-702
Table_THU_U(year) ==
  CASE year \in {2010, 2018} -> Entry(1, NaN, 1, <<>>)
    [] year \in {2011, 2013, 2015, 2019} -> Entry(2, NaN, 1, <<>>)
    [] year = 2012 -> Entry(3, <<191>>, 1, <<>>)
    [] year = 2014 ->
      Entry(2, NaN, 1,
        << Add(<<DoyGe(258)>>, 850),
           AssignNans(<<258>>) >>)
    [] year = 2016 ->
      Entry(2, NaN, 1,
        << Add(<<DoyGe(204)>>, 2500),
           AssignNans(<<203>>),
           SetNan(<<ZLt(-500)>>) >>)
    [] year = 2017 ->
      Entry(1, NaN, 1,
        << SetNan(<<ZLt(-60)>>) >>)
    [] OTHER -> NoProc

\* THU_U2: source lines 704-709
Table_THU_U2(year) ==
  CASE year = 2018 ->
      Entry(2, NaN, 1,
        << AssignNans(<<216>>) >>)
    [] year = 2019 -> Entry(1, NaN, 1, <<>>)
    [] OTHER -> Unbound

\* SCO_L: source lines 711-750
Table_SCO_L(year) ==
  CASE year = 2008 -> Entry(2, NaN, 1, <<>>)
    [] year = 2009 -> Entry(3, <<143>>, 1, <<>>)
    [] year = 2010 -> Entry(3, <<144>>, 0, <<>>)
    [] year = 2011 -> Entry(3, <<158>>, 1, <<>>)
    [] year = 2012 -> Entry(3, <<150>>, 1, <<>>)
    [] year = 2013 -> Entry(3, <<151>>, 1, <<>>)
    [] year = 2014 ->
      Entry(2, NaN, 1,
        << Sub(<<DoyGe(222)>>, 14790),
           AssignNans(<<221>>) >>)
    [] year \in {2015, 2019} -> Entry(1, NaN, 1, <<>>)
    [] year = 2016 ->
      Entry(3, <<158>>, 1,
        << AssignNans(<<115, 116, 117, 118, 119>>) >>)
    [] year = 2017 ->
      Entry(3, <<146>>, 1,
        << AssignNans(<<110, 111, 112, 113, 114, 115>>),
           Sub(<<DoyGe(219)>>, 9880),
           AssignNans(<<218>>) >>)
    [] year = 2018 -> Entry(3, <<148>>, 1, <<>>)
    [] OTHER -> NoProc

\* SCO_U: source lines 752-796
Table_SCO_U(year) ==
  CASE year \in {2008, 2018} -> Entry(2, NaN, 1, <<>>)
    [] year = 2009 ->
      Entry(3, <<184>>, 0,
        << SetNan(<<DoyGe(316)>>) >>)
    [] year = 2010 -> Entry(1, NaN, 1, <<>>)
    [] year = 2011 -> Entry(3, <<161>>, 1, <<>>)
    [] year = 2012 ->
      Entry(3, <<150>>, 1,
        << Sub(<<DoyGe(242)>>, 1470),
           AssignNans(<<241>>) >>)
    [] year = 2013 ->
      Entry(3, <<155>>, 1,
        << SetNan(<<DoyGt(22), DoyLt(26)>>) >>)
    [] year = 2014 -> Entry(3, <<162>>, 1, <<>>)
    [] year = 2015 ->
      Entry(3, <<170>>, 1,
        << AssignNans(<<101, 102, 103, 113>>) >>)
    [] year = 2016 ->
      Entry(3, <<160>>, 1,
        << AssignNans(<<47, 60, 61>>) >>)
    [] year = 2017 ->
      Entry(3, <<153>>, 1,
        << Sub(<<DoyGe(217)>>, 12080),
           AssignNans(<<216>>),
           SetNan(<<DoyGt(49), DoyLt(54)>>),
           AssignNans(<<82, 83, 84, 85, 86, 87, 88, 89, 90, 91, 92>>) >>)
    [] year = 2019 -> Entry(3, <<160>>, 1, <<>>)
    [] OTHER -> NoProc

\* TAS_A: source lines 798-816
Table_TAS_A(year) ==
  CASE year \in {2013, 2015, 2018} -> Entry(1, NaN, 1, <<>>)
    [] year = 2014 ->
      Entry(3, <<188>>, 1,
        << SetNan(<<DoyGt(41), DoyLt(75)>>) >>)
    [] year = 2016 -> Entry(3, <<176>>, 1, <<>>)
    [] year = 2017 -> Entry(3, <<210>>, 1, <<>>)
    [] year = 2019 -> Entry(3, <<195>>, 0, <<>>)
    [] OTHER -> NoProc

\* TAS_L: source lines 818-848
Table_TAS_L(year) ==
  CASE year \in {2007, 2008, 2009} -> Entry(0, NaN, 1, <<>>)
    [] year \in {2010, 2011, 2014, 2015, 2016} -> Entry(1, NaN, 1, <<>>)
    [] year = 2012 ->
      Entry(3, <<153>>, 1,
        << Sub(<<DoyGe(252)>>, 2860),
           AssignNans(<<251>>),
           SetNan(<<DoyLe(83)>>) >>)
    [] year = 2013 ->
      Entry(2, <<140>>, 1,
        << SubNan(<<DoyGe(235)>>) >>)
    [] year = 2017 ->
      Entry(2, NaN, 1,
        << Sub(<<DoyGe(209)>>, 10360),
           AssignNans(<<207, 208>>) >>)
    [] year = 2018 ->
      Entry(3, <<156>>, 1,
        << Add(<<DoyGe(272)>>, 1290),
           AssignNans(<<271>>) >>)
    [] year = 2019 ->
      Entry(3, <<143>>, 0,
        << Sub(<<DoyGe(121)>>, 1135) >>)
    [] OTHER -> NoProc

\* TAS_U: source lines 850-880
Table_TAS_U(year) ==
  CASE year = 2008 ->
      Entry(3, <<167>>, 1,
        << AssignNans(<<143>>) >>)
    [] year \in {2009, 2012} -> Entry(1, NaN, 1, <<>>)
    [] year = 2010 ->
      Entry(2, NaN, 1,
        << Sub(<<DoyGe(219)>>, 8070),
           AssignNans(<<218>>) >>)
    [] year = 2011 ->
      Entry(3, <<161>>, 0,
        << Sub(<<DoyGe(203)>>, 1558),
           AssignNans(<<202, 222>>) >>)
    [] year = 2013 -> Entry(3, <<167>>, 1, <<>>)
    [] year = 2014 ->
      Entry(3, <<136>>, 1,
        << Sub(<<DoyGe(216)>>, 1290),
           AssignNans(<<138, 215>>),
           Add(<<DoyGe(138)>>, 1270),
           AssignNans(<<137>>) >>)
    [] year = 2015 -> Entry(2, NaN, 1, <<>>)
    [] OTHER -> NoProc

\* MIT: source lines 882-919
Table_MIT(year) ==
  CASE year = 2009 ->
      Entry(3, <<222>>, 0,
        << Sub(<<DoyGe(224)>>, 6600),
           AssignNans(<<124, 223>>) >>)
    [] year = 2010 -> Entry(3, <<190>>, 1, <<>>)
    [] year = 2011 ->
      Entry(3, <<203>>, 1,
        << AssignNans(<<224>>),
           Sub(<<DoyGt(223)>>, 80) >>)
    [] year = 2012 ->
      Entry(2, NaN, 1,
        << Sub(<<DoyGe(250)>>, 13700),
           AssignNans(<<249>>) >>)
    [] year \in {2013, 2015, 2016} -> Entry(1, NaN, 1, <<>>)
    [] year = 2014 -> Entry(3, <<188>>, 1, <<>>)
    [] year = 2017 ->
      Entry(3, <<208>>, 0,
        << AssignNans(<<207>>) >>)
    [] year = 2018 -> Entry(2, NaN, 1, <<>>)
    [] year = 2019 ->
      Entry(3, <<186>>, 0,
        << Add(<<DoyLt(12)>>, 4400) >>)
    [] OTHER -> NoProc
\* stations in the accumulation area (lines 921-924)
Table_accumulation(year) == Entry(0, NaN, 1, <<>>)

\* The if/elif chain on site of lines 129-924.
Table(s, year) ==
  CASE s = "NUK_U" -> Table_NUK_U(year)
    [] s = "NUK_L" -> Table_NUK_L(year)
    [] s = "NUK_N" -> Table_NUK_N(year)
    [] s = "NUK_K" -> Table_NUK_K(year)
    [] s = "UPE_L" -> Table_UPE_L(year)
    [] s = "UPE_U" -> Table_UPE_U(year)
    [] s = "KPC_L" -> Table_KPC_L(year)
    [] s = "KPC_U" -> Table_KPC_U(year)
    [] s = "KAN_L" -> Table_KAN_L(year)
    [] s = "KAN_M" -> Table_KAN_M(year)
    [] s = "QAS_M" -> Table_QAS_M(year)
    [] s = "QAS_A" -> Table_QAS_A(year)
    [] s = "QAS_L" -> Table_QAS_L(year)
    [] s = "QAS_U" -> Table_QAS_U(year)
    [] s = "THU_L" -> Table_THU_L(year)
    [] s = "THU_U" -> Table_THU_U(year)
    [] s = "THU_U2" -> Table_THU_U2(year)
    [] s = "SCO_L" -> Table_SCO_L(year)
    [] s = "SCO_U" -> Table_SCO_U(year)
    [] s = "TAS_A" -> Table_TAS_A(year)
    [] s = "TAS_L" -> Table_TAS_L(year)
    [] s = "TAS_U" -> Table_TAS_U(year)
    [] s = "MIT" -> Table_MIT(year)
    [] s \in {"EGP", "CEN", "KAN_U"} -> Table_accumulation(year)
    [] OTHER -> Unbound

\* ------------------------------------------------------------------------
\* The float64 arithmetic of the depth series.  z is a Series of float64:
\* every number written in the source or read from the file is the double
\* nearest to its decimal, and every +, - and / rounds to nearest, ties to
\* even.  The exact result of the decimals and the double differ by less
\* than 1e-12 here, so a comparison of the code gives what the exact numbers
\* give unless these are equal; then the doubles decide, and they are
\* computed bit for bit.  (Values stay far from the overflow and the
\* subnormal range; a mean is taken over fewer than 1024 samples.)

\* A natural number is the sequence of its bits, the least significant
\* first and the last one 1: <<>> is 0.
MaxOf(S) == CHOOSE m \in S : \A k \in S : m >= k
BitAt(a, i) == IF i <= Len(a) THEN a[i] ELSE 0
Trim(a) ==
  IF \E j \in 1..Len(a) : a[j] = 1
  THEN SubSeq(a, 1, MaxOf({j \in 1..Len(a) : a[j] = 1}))
  ELSE <<>>

\* the bits of 0 <= n < 2^31
IntBits == 31
BitsOf(n) == Trim([i \in 1..IntBits |-> (n \div 2^(i - 1)) % 2])

\* the carry into bit i of a + b: what the nearest lower position where the
\* bits agree holds
Carry(a, b, i) ==
  IF \E j \in 1..(i - 1) : BitAt(a, j) = BitAt(b, j)
  THEN BitAt(a, MaxOf({j \in 1..(i - 1) : BitAt(a, j) = BitAt(b, j)}))
  ELSE 0
BigAdd(a, b) ==
  Trim([i \in 1..((IF Len(a) > Len(b) THEN Len(a) ELSE Len(b)) + 1) |->
          (BitAt(a, i) + BitAt(b, i) + Carry(a, b, i)) % 2])

\* the borrow into bit i of a - b, a >= b
Borrow(a, b, i) ==
  IF \E j \in 1..(i - 1) : BitAt(a, j) # BitAt(b, j)
  THEN BitAt(b, MaxOf({j \in 1..(i - 1) : BitAt(a, j) # BitAt(b, j)}))
  ELSE 0
BigSub(a, b) ==
  Trim([i \in 1..Len(a) |-> (BitAt(a, i) + BitAt(b, i) + Borrow(a, b, i)) % 2])

BigLess(a, b) ==
  \/ Len(a) < Len(b)
  \/ /\ Len(a) = Len(b)
     /\ \E j \in 1..Len(a) : a[j] # b[j]
     /\ b[MaxOf({j \in 1..Len(a) : a[j] # b[j]})] = 1

\* a * 2^k
ShiftLeft(a, k) == IF Len(a) = 0 THEN a ELSE [i \in 1..k |-> 0] \o a

\* A double is (-1)^neg * m * 2^e with m of at most 53 bits.
Double(neg, m, e) == [neg |-> neg, m |-> m, e |-> e]
FZero == Double(FALSE, <<>>, 0)
\* bits of the significand of a float64
Significand == 53

\* m * 2^e rounded to 53 bits, to nearest, ties to even
RoundEven(neg, m, e) ==
  IF Len(m) <= Significand THEN Double(neg, m, e)
  ELSE IF /\ m[Len(m) - Significand] = 1
          /\ \/ m[Len(m) - Significand + 1] = 1
             \/ \E j \in 1..(Len(m) - Significand - 1) : m[j] = 1
  THEN Double(neg, BigAdd(SubSeq(m, Len(m) - Significand + 1, Len(m)), <<1>>),
              e + Len(m) - Significand)
  ELSE Double(neg, SubSeq(m, Len(m) - Significand + 1, Len(m)), e + Len(m) - Significand)

\* a + b of the aligned significands a and b of signs na and nb: the sum of
\* the magnitudes under equal signs, else the larger less the smaller under
\* the sign of the larger
Larger(a, b) == IF BigLess(a, b) THEN b ELSE a
Smaller(a, b) == IF BigLess(a, b) THEN a ELSE b
SignedSum(na, a, nb, b, e) ==
  RoundEven(IF na # nb /\ BigLess(a, b) THEN nb ELSE na,
            IF na = nb THEN BigAdd(a, b) ELSE BigSub(Larger(a, b), Smaller(a, b)),
            e)

\* p + q, p - q: the significands are aligned on the lower exponent
MinOf(m, n) == IF m <= n THEN m ELSE n
FAdd(p, q) ==
  IF Len(p.m) = 0 THEN q
  ELSE IF Len(q.m) = 0 THEN p
  ELSE SignedSum(p.neg, ShiftLeft(p.m, p.e - MinOf(p.e, q.e)),
                 q.neg, ShiftLeft(q.m, q.e - MinOf(p.e, q.e)), MinOf(p.e, q.e))
FNeg(p) == Double(~p.neg, p.m, p.e)
FSub(p, q) == FAdd(p, FNeg(q))

\* p < q, p == q: the sign of the rounded difference is the sign of the
\* difference
FSign(p) == IF Len(p.m) = 0 THEN 0 ELSE IF p.neg THEN -1 ELSE 1
FLess(p, q) == FSign(FSub(p, q)) < 0
Related(rel, sign) ==
  CASE rel = ">"  -> sign > 0
    [] rel = ">=" -> sign >= 0
    [] rel = "<"  -> sign < 0
    [] rel = "<=" -> sign <= 0
    [] rel = "="  -> sign = 0
FCmp(rel, p, q) == Related(rel, FSign(FSub(p, q)))

\* The long division of a by d < 1024 runs on the digits of a in base 2^11,
\* each with the remainder of the higher ones, which is below 2^21.
DigitBits == 11
\* digit k of a, the lowest is digit 1
Digit(a, k) ==
  LET b == [j \in 1..DigitBits |-> BitAt(a, DigitBits * (k - 1) + j)]
  IN b[1] + 2 * b[2] + 4 * b[3] + 8 * b[4] + 16 * b[5] + 32 * b[6] + 64 * b[7]
     + 128 * b[8] + 256 * b[9] + 512 * b[10] + 1024 * b[11]

\* The digits k, k - 1, ..., 1 of a divided by d after the higher digits
\* left the remainder r: what is left at the end, then the digits of the
\* quotient from the lowest.
RECURSIVE Quotient(_, _, _, _)
Quotient(a, d, k, r) ==
  IF k = 0 THEN <<r>>
  ELSE Append(Quotient(a, d, k - 1, (r * 2^DigitBits + Digit(a, k)) % d),
              (r * 2^DigitBits + Digit(a, k)) \div d)

\* digits of the dividend, 66 bits: the quotient by d < 1024 then has the 53
\* bits, the rounding bit and more
DividendDigits == 6

\* the bits of the quotient q, with one more low bit that is 1 when the
\* division leaves a remainder
QuotientBits(q) ==
  [i \in 1..(DigitBits * DividendDigits + 1) |->
     IF i = 1 THEN (IF q[1] > 0 THEN 1 ELSE 0)
     ELSE (q[((i - 2) \div DigitBits) + 2] \div 2^((i - 2) % DigitBits)) % 2]

\* p / d for an integer 0 < d < 1024
Dividend(m) == ShiftLeft(m, DigitBits * DividendDigits - Len(m))
FDivInt(p, d) ==
  IF Len(p.m) = 0 THEN FZero
  ELSE RoundEven(p.neg,
                 Trim(QuotientBits(Quotient(Dividend(p.m), d, DividendDigits, 0))),
                 p.e - (DigitBits * DividendDigits - Len(p.m)) - 1)

\* the double nearest to v / 1000: the float of a number of the source or
\* of the file, v in units of 0.001
Thousand == 1000
FromDec(v) ==
  FDivInt(Double(v < 0, BitsOf(IF v < 0 THEN -v ELSE v), 0), Thousand)

\* acc with the numbers a[i], a[i + 1], ... added in turn
RECURSIVE AddInTurn(_, _, _)
AddInTurn(a, i, acc) ==
  IF i > Len(a) THEN acc ELSE AddInTurn(a, i + 1, FAdd(acc, a[i]))

\* The float of a sample: h lists the decimals it was computed from, the
\* first one assigned and the others added in turn (z[cond] -= v adds -v).
FirstThenRest(a) == AddInTurn(a, 2, a[1])
FloatOf(h) == FirstThenRest([k \in 1..Len(h) |-> FromDec(h[k])])

\* np.sum of float64 (pairwise summation): fewer than 8 numbers are added
\* in turn; up to 128 are added in 8 lanes, the lanes are added in pairs and
\* the numbers left over in turn; more are split in two.

\* the numbers of a added in pairs, and the sums in pairs: for 8 lanes
\* ((r1 + r2) + (r3 + r4)) + ((r5 + r6) + (r7 + r8))
RECURSIVE InPairs(_)
InPairs(a) ==
  IF Len(a) = 1 THEN a[1]
  ELSE InPairs([k \in 1..(Len(a) \div 2) |-> FAdd(a[2 * k - 1], a[2 * k])])

\* the numbers of lane j of the first 8 * blocks numbers, but the first
Lanes == 8
Lane(a, j, blocks) == [k \in 1..(blocks - 1) |-> a[j + Lanes * k]]

PairwiseBlock == 128
RECURSIVE NpSum(_)
NpSum(a) ==
  IF Len(a) < Lanes THEN AddInTurn(a, 1, FZero)
  ELSE IF Len(a) <= PairwiseBlock
  THEN AddInTurn(SubSeq(a, Lanes * (Len(a) \div Lanes) + 1, Len(a)), 1,
         InPairs([j \in 1..Lanes |->
                    AddInTurn(Lane(a, j, Len(a) \div Lanes), 1, a[j])]))
  ELSE InPairs(<<NpSum(SubSeq(a, 1, (Len(a) \div 2) - ((Len(a) \div 2) % Lanes))),
                 NpSum(SubSeq(a, (Len(a) \div 2) - ((Len(a) \div 2) % Lanes) + 1, Len(a)))>>)

\* ------------------------------------------------------------------------
\* DPT_processing (lines 86-958)

\* A row of the table load_data returns: one station-day.
Row(yy, d, dpt, alb, t, h) ==
  [Year |-> yy, DayOfYear |-> d, DPT |-> dpt, Albedo |-> alb, AirT |-> t,
   Boom |-> h]

\* df[name]: a column of the table
Col(df, name) == [i \in 1..Len(df) |-> df[i][name]]

Cmp(rel, a, b) ==
  CASE rel = ">"  -> a > b
    [] rel = ">=" -> a >= b
    [] rel = "<"  -> a < b
    [] rel = "<=" -> a <= b
    [] rel = "="  -> a = b

\* A depth while the table branch runs: its exact value v (0.001 m) and the
\* decimals h its float was computed from.
Val(v, h) == <<v, h>>
Traced(zs) ==
  [i \in 1..Len(zs) |-> IF zs[i] = NaN THEN NaN ELSE Val(zs[i][1], <<zs[i][1]>>)]
Values(zs) == [i \in 1..Len(zs) |-> IF zs[i] = NaN THEN NaN ELSE Num(zs[i][1])]

\* z <rel> c for the depth x: when the exact value is c and x was computed,
\* the floats are compared
CmpDepth(rel, x, c) ==
  IF x[1] = c /\ Len(x[2]) > 1 THEN FCmp(rel, FloatOf(x[2]), FromDec(c))
  ELSE Cmp(rel, x[1], c)

\* One comparison of a mask at a row of day d and current depth x; a
\* comparison with NaN is False.
Holds(atom, d, x) ==
  CASE atom.k = "doy" -> Cmp(atom.rel, d, atom.n)
    [] atom.k = "z" -> x # NaN /\ CmpDepth(atom.rel, x, atom.n)
    [] atom.k = "isnan" -> x = NaN

\* (c1) & (c2) & ...
Mask(cond, d, x) == \A j \in 1..Len(cond) : Holds(cond[j], d, x)

\* Mutant of assign_nans: only the first listed day is excluded.
assign_nans_first(days, zs, doy) ==
  [i \in 1..Len(zs) |->
     IF Len(days) > 0 /\ days[1] = doy[i] THEN NaN ELSE zs[i]]

\* assign_nans (lines 114-119): for d in days: z[d == doy] = np.nan; an int
\* is a list of one day
RECURSIVE assign_nans(_, _, _)
assign_nans(days, zs, doy) ==
  IF Len(days) = 0 THEN zs
  ELSE assign_nans(Tail(days),
                   [i \in 1..Len(zs) |-> IF Head(days) = doy[i] THEN NaN ELSE zs[i]],
                   doy)

\* One statement of a table branch, on the current series zs.
Adjust(a, zs, doy) ==
  IF a.op = "assign_nans" THEN assign_nans(a.arg, zs, doy)
  ELSE [i \in 1..Len(zs) |->
     IF ~Mask(a.cond, doy[i], zs[i]) THEN zs[i]
     ELSE CASE a.op = "sub" ->
                 IF zs[i] = NaN THEN NaN
                 ELSE Val(zs[i][1] - a.val, Append(zs[i][2], -a.val))
            [] a.op = "add" ->
                 IF zs[i] = NaN THEN NaN
                 ELSE Val(zs[i][1] + a.val, Append(zs[i][2], a.val))
            [] a.op = "nan" -> NaN
            [] a.op = "subnan" -> NaN
            [] a.op = "set" -> Val(a.val, <<a.val>>)
            \* the two Series are aligned on their index: a row of z[cond]
            \* that is no row of z[other] gets NaN, and the others x - x
            [] a.op = "subsel" ->
                 IF zs[i] # NaN /\ Mask(a.arg, doy[i], zs[i]) THEN Val(0, <<0>>) ELSE NaN]

\* Mutant of ApplyAll: every statement is evaluated on the raw series.
RECURSIVE ApplyRaw(_, _, _, _)
ApplyRaw(adj, cur, raw, doy) ==
  IF Len(adj) = 0 THEN cur
  ELSE ApplyRaw(Tail(adj),
                [i \in 1..Len(cur) |->
                   IF Adjust(Head(adj), raw, doy)[i] # raw[i]
                   THEN Adjust(Head(adj), raw, doy)[i] ELSE cur[i]],
                raw, doy)
ApplyAll_raw(adj, zs, doy) == ApplyRaw(adj, zs, zs, doy)

\* The statements of a branch, in the order written, each on the series the
\* earlier ones left; no statement changes a series of no row.
RECURSIVE ApplyAll(_, _, _)
ApplyAll(adj, zs, doy) ==
  IF Len(adj) = 0 \/ Len(zs) = 0 THEN zs
  ELSE ApplyAll(Tail(adj), Adjust(Head(adj), zs, doy), doy)

\* z after the table branch of (s, year): lines 111-919
CorrectedTraced(s, df, year) ==
  ApplyAll(Table(s, year).adj, Traced(Col(df, "DPT")), Col(df, "DayOfYear"))
Corrected(s, df, year) == Values(CorrectedTraced(s, df, year))

\* albedo += 0.034 (line 937)
AlbedoBias == 34
\* the pre-melt window IAO - 45 < doy < IAO (line 945)
PreMelt == 45
\* significant ablation: z < -0.06 (line 950)
BidThreshold == -60

\* lines 926-928: DPT_flag after the table
FlagOf(e) == IF e.no_proc = 1 THEN 0 ELSE e.DPT_flag

\* Mutant of IAOOf: the onset day the entry writes is kept whatever the flag.
IAOOf_kept(e) == e.IAO

\* lines 930-931
IAOOf(e) == IF FlagOf(e) # 3 THEN NaN ELSE e.IAO

\* Mutant of Albedo: the bias is left out.
Albedo_nobias(e, df) ==
  [i \in 1..Len(df) |-> IF e.albedo_flag = 0 THEN NaN ELSE df[i].Albedo]

\* lines 933-940: the albedo series returned
Albedo(e, df) ==
  [i \in 1..Len(df) |->
     IF e.albedo_flag = 0 \/ df[i].Albedo = NaN THEN NaN
     ELSE Num(df[i].Albedo[1] + AlbedoBias)]

\* lines 941-942: albedo_flag before the detection
AlbedoFlag(e, df) ==
  IF \A i \in 1..Len(df) : Albedo(e, df)[i] = NaN THEN 0 ELSE e.albedo_flag

\* Mutant of Window: every day before IAO.
Window_nolower(doy, IAO) == {i \in 1..Len(doy) : IAO # NaN /\ doy[i] < IAO[1]}

\* (doy < IAO) & (doy > IAO - 45); a comparison with a NaN IAO is False
Window(doy, IAO) ==
  {i \in 1..Len(doy) : IAO # NaN /\ doy[i] < IAO[1] /\ doy[i] > IAO[1] - PreMelt}

RECURSIVE SumOver(_, _)
SumOver(zs, I) ==
  IF I = {} THEN 0
  ELSE LET i == CHOOSE j \in I : TRUE IN zs[i][1] + SumOver(zs, I \ {i})

\* z[window] as np.nanmean sums it: the samples of the window in the order
\* of the rows, 0 for NaN
WindowTerms(zs, W) ==
  [k \in 1..Cardinality(W) |->
     LET i == CHOOSE j \in W : Cardinality({m \in W : m <= j}) = k
     IN IF zs[i] = NaN THEN <<0>> ELSE zs[i][2]]

\* z -= np.nanmean(z[window]) (line 945): the mean of no sample is NaN, and
\* z - NaN is NaN everywhere.  A baselined depth is the exact fraction
\* <<num, den>>, then the decimals its float was computed from: those of
\* the sample and those of the window.
Baseline(zs, doy, IAO) ==
  LET I == {i \in Window(doy, IAO) : zs[i] # NaN}
      n == Cardinality(I)
      S == SumOver(zs, I)
      terms == WindowTerms(zs, Window(doy, IAO))
  IN [i \in 1..Len(zs) |->
        IF n = 0 \/ zs[i] = NaN THEN NaN
        ELSE <<n * zs[i][1] - S, n, zs[i][2], terms>>]

\* the series returned: the fractions
Fractions(zs) ==
  [i \in 1..Len(zs) |-> IF zs[i] = NaN THEN NaN ELSE <<zs[i][1], zs[i][2]>>]

\* z - tot / cnt for the floats fs: that of the sample, then those of the
\* window
MeanTaken(fs, cnt) == FSub(fs[1], FDivInt(NpSum(Tail(fs)), cnt))

\* the float of the baselined depth x
FloatBaselined(x) ==
  MeanTaken([k \in 1..(Len(x[4]) + 1) |-> FloatOf((<<x[3]>> \o x[4])[k])], x[2])

\* x < -0.06 for a baselined depth x: when the exact value is -0.06 the
\* floats are compared
Below(x) ==
  /\ x # NaN
  /\ IF x[1] = BidThreshold * x[2] THEN FLess(FloatBaselined(x), FromDec(BidThreshold))
     ELSE x[1] < BidThreshold * x[2]

\* Mutant of Hits: the days up to IAO are searched too.
Hits_anyday(zs, doy, IAO) ==
  {i \in 1..Len(zs) : IAO # NaN /\ Below(zs[i])}

\* the rows np.where(z[doy > IAO] < -0.06)[0] names
Hits(zs, doy, IAO) ==
  {i \in 1..Len(zs) : IAO # NaN /\ doy[i] > IAO[1] /\ Below(zs[i])}

\* Mutant of First: the last of them.
First_last(S) == CHOOSE m \in S : \A k \in S : m >= k

\* [0][0]: the first of them
First(S) == CHOOSE m \in S : \A k \in S : m <= k

\* Mutant of Detect: the except branch leaves albedo_flag as it was.
Onset_keepflag(DPT_flag, albedo_flag, doy, hits) ==
  IF DPT_flag = 3 /\ albedo_flag = 1 /\ hits # {}
  THEN [BID |-> Num(doy[First(hits)]), albedo_flag |-> albedo_flag]
  ELSE [BID |-> NaN, albedo_flag |-> albedo_flag]
Detect_keepflag(DPT_flag, albedo_flag, zs, doy, IAO) ==
  Onset_keepflag(DPT_flag, albedo_flag, doy, Hits(zs, doy, IAO))

\* lines 947-956: BID and the albedo_flag returned
\* hits: the rows of np.where(...)[0]
Onset(DPT_flag, albedo_flag, doy, hits) ==
  IF DPT_flag = 3 /\ albedo_flag = 1
  THEN IF hits # {}
       THEN [BID |-> Num(doy[First(hits)]), albedo_flag |-> albedo_flag]
       ELSE [BID |-> NaN, albedo_flag |-> 0]     \* except IndexError
  ELSE [BID |-> NaN, albedo_flag |-> albedo_flag]
Detect(DPT_flag, albedo_flag, zs, doy, IAO) ==
  Onset(DPT_flag, albedo_flag, doy, Hits(zs, doy, IAO))

\* a call that raised exc
Raised(exc) ==
  [raised |-> exc, z |-> <<>>, albedo |-> <<>>, DPT_flag |-> -1, BID |-> NaN,
   albedo_flag |-> -1]

\* lines 930-958 for the entry e: zb is z after line 945, d what the
\* detection gives
Returned(e, df, zb, d) ==
  IF ~e.bound /\ e.no_proc = 0
  THEN Raised("UnboundLocalError")   \* line 930 reads a DPT_flag never assigned
  ELSE [raised |-> "", z |-> Fractions(zb), albedo |-> Albedo(e, df),
        DPT_flag |-> FlagOf(e), BID |-> d.BID, albedo_flag |-> d.albedo_flag]

\* Mutant of DPT_processing: the onset day the entry writes is used whatever
\* the flag, and the detection is not restricted to flag 3.
Baselined_anyflag(e, df, doy, zb) ==
  Returned(e, df, zb, Detect(3, AlbedoFlag(e, df), zb, doy, e.IAO))
Processed_anyflag(e, df, doy, zs) ==
  Baselined_anyflag(e, df, doy, Baseline(zs, doy, e.IAO))
DPT_processing_anyflag(s, df, year) ==
  Processed_anyflag(Table(s, year), df, Col(df, "DayOfYear"), CorrectedTraced(s, df, year))

\* lines 947-958 on the baselined series zb
Baselined(e, df, doy, zb) ==
  Returned(e, df, zb, Detect(FlagOf(e), AlbedoFlag(e, df), zb, doy, IAOOf(e)))

\* lines 930-958 on the series zs the branch of the entry e left
Processed(e, df, doy, zs) == Baselined(e, df, doy, Baseline(zs, doy, IAOOf(e)))

\* s is the global site the function reads (line 129)
DPT_processing(s, df, year) ==
  Processed(Table(s, year), df, Col(df, "DayOfYear"), CorrectedTraced(s, df, year))

\* ------------------------------------------------------------------------
\* load_data (lines 17-60).  A file is its name, split at "_", and the rows
\* read_csv gives, -999 already NaN (line 45).

File(name, rows) == [name |-> name, rows |-> rows, found |-> TRUE]
\* a path that names no file
NoSuchFile(name) == [name |-> name, rows |-> <<>>, found |-> FALSE]

\* site[:3]
Prefix3(str) == SubSeq(str, 1, IF Len(str) < 3 THEN Len(str) ELSE 3)

\* lines 34-39 and 1147-1149: the first two parts of the name joined, and
\* the first part alone when the joined name starts with MIT, EGP or CEN
SiteOfFile(name) ==
  IF Prefix3(name[1] \o "_" \o name[2]) \in {"MIT", "EGP", "CEN"} THEN name[1]
  ELSE name[1] \o "_" \o name[2]

\* the year(s) asked for: 'all', an int or a list; Unset: the global yr
\* before any load_data
Unset == [kind |-> "unset", v |-> <<>>]
AllYears == [kind |-> "all", v |-> <<>>]
OneYear(yy) == [kind |-> "int", v |-> <<yy>>]
YearList(l) == [kind |-> "list", v |-> l]

\* a DataFrame of rows; None
Frame(rows) == [none |-> FALSE, rows |-> rows]
NoFrame == [none |-> TRUE, rows |-> <<>>]

\* rows[mask]: the rows whose index is in I, in order
RowsAt(rows, I) ==
  LET J == I \cap (1..Len(rows))
  IN [n \in 1..Cardinality(J) |->
        rows[CHOOSE k \in J : Cardinality({j \in J : j <= k}) = n]]

\* rows[rows.Year == yy]
RowsOfYear(rows, yy) == RowsAt(rows, {k \in 1..Len(rows) : rows[k].Year = yy})

\* line 57
NotAvailable == "ERROR: Selected year not available"

\* Mutant of load_data: the year asked for is not looked at.
load_data_all(file, yearsel) ==
  [site |-> SiteOfFile(file.name), yr |-> yearsel, yr_set |-> TRUE,
   raised |-> "", printed |-> "",
   promice_data |-> IF Len(file.rows) = 0 THEN NoFrame ELSE Frame(file.rows)]

\* What load_data leaves: the globals site and yr, and promice_data or the
\* exception.  site is set before the file is read (line 36) and yr after
\* (line 49): read_csv raises on a path that names no file, and leaves yr
\* as it was (yr_set).  A list is not 'all', so line 52 compares the Year
\* column with the list, element by element, and raises when the lengths
\* differ; the elif of line 53 is never reached.
load_data(file, yearsel) ==
  LET rows == file.rows
      mismatch == yearsel.kind = "list" /\ Len(yearsel.v) # Len(rows)
      kept == CASE yearsel.kind = "all" -> rows
                [] yearsel.kind = "int" -> RowsOfYear(rows, yearsel.v[1])
                [] yearsel.kind = "list" ->
                     IF mismatch THEN <<>>
                     ELSE RowsAt(rows, {k \in 1..Len(rows) : rows[k].Year = yearsel.v[k]})
  IN IF ~file.found
     THEN [site |-> SiteOfFile(file.name), yr |-> yearsel, yr_set |-> FALSE,
           raised |-> "FileNotFoundError", printed |-> "", promice_data |-> NoFrame]
     ELSE [site |-> SiteOfFile(file.name), yr |-> yearsel, yr_set |-> TRUE,
           raised |-> IF mismatch THEN "ValueError" ELSE "",
           printed |-> IF ~mismatch /\ Len(kept) = 0 THEN NotAvailable ELSE "",
           promice_data |-> IF Len(kept) = 0 THEN NoFrame ELSE Frame(kept)]

\* ------------------------------------------------------------------------
\* BIC_processing (lines 63-1116)

\* list(Counter(promice_data.Year)): the years in order of first appearance
YearsIn(rows) ==
  LET first == {k \in 1..Len(rows) : \A j \in 1..(k - 1) : rows[j].Year # rows[k].Year}
  IN [n \in 1..Cardinality(first) |->
        rows[CHOOSE k \in first : Cardinality({j \in first : j <= k}) = n].Year]

\* the columns of the frame of the first year processed (lines 1041-1053),
\* and of the later ones (lines 1056-1068)
ColsFirst ==
  {"DPT_proc", "DPT_flag", "BID", "DOY", "Year", "Air_temperature_C",
   "Albedo_theta_inf_70d", "Albedo_flag", "HeightSensorBoom_m"}
ColsLater ==
  {"DPT_proc", "DPT_flag", "BID", "DOY", "Year", "Air_temperature_C",
   "Albedo_theta_inf_70d", "Albedo_flag", "Height_sensor_boom_m"}

\* the frame of one year: i is the index of the year in the loop; after
\* append (line 1070) a column the frame lacks is NaN
ProcFrame(df, r, i) ==
  [k \in 1..Len(df) |->
     [DPT_proc |-> r.z[k], DPT_flag |-> r.DPT_flag, BID |-> r.BID,
      DOY |-> df[k].DayOfYear, Year |-> df[k].Year,
      Air_temperature_C |-> df[k].AirT,
      Albedo_theta_inf_70d |-> r.albedo[k], Albedo_flag |-> r.albedo_flag,
      HeightSensorBoom_m |-> IF i = 0 THEN df[k].Boom ELSE NaN,
      Height_sensor_boom_m |-> IF i = 0 THEN NaN ELSE df[k].Boom]]

\* a call of BIC_processing that raised exc
ProcRaised(exc) == [raised |-> exc, cols |-> {}, rows |-> <<>>]

\* A DataFrame is the array that holds its rows and the positions of its
\* rows in that array; mem gives the rows of every array of the call: the
\* array of the table passed (promice_data) and the array of df_y.

\* the rows of the frame f
RowsIn(mem, f) == [n \in 1..Len(f.at) |-> mem[f.of][f.at[n]]]

\* Mutant of Taken: the mask gives a view, df_y is the rows I of the array of
\* the table passed.
Taken_view(mem, I) ==
  [mem |-> mem, of |-> "promice_data",
   at |-> [n \in 1..Cardinality(I) |->
             CHOOSE k \in I : Cardinality({j \in I : j <= k}) = n]]

\* df_y = promice_data[promice_data.Year == int(y)] (line 1024): indexing
\* with a boolean mask takes the rows I into an array of their own, which
\* df_y is bound to; the array of the year before is dropped
Taken(mem, I) ==
  [mem |-> [mem EXCEPT !.df_y = RowsAt(mem.promice_data, I)], of |-> "df_y",
   at |-> [n \in 1..Cardinality(I) |-> n]]

\* albedo = df["Albedo_theta<70d"] (line 933) is the column of the frame f,
\* not a copy as z is (line 111): albedo += 0.034 and albedo[:] = np.nan
\* (lines 937-940) write the values vals into the array that holds f
AlbedoWritten(mem, f, vals) ==
  [mem EXCEPT ![f.of] =
     [k \in 1..Len(@) |->
        IF \E n \in 1..Len(f.at) : f.at[n] = k
        THEN [@[k] EXCEPT !.Albedo = vals[CHOOSE n \in 1..Len(f.at) : f.at[n] = k]]
        ELSE @[k]]]

\* the loop of lines 1022-1070 from its i-th year on (i from 1): what the
\* call returns (value) and the rows of the table passed, after the call
RECURSIVE YearLoop(_, _, _, _, _)
\* lines 1027-1070 of the year ys[i]: t is df_y as line 1024 left it and r
\* what DPT_processing(df=df_y) returned; a call that raises does so at line
\* 930, before the albedo is touched
YearDone(s, ys, i, acc, t, r) ==
  IF r.raised # ""
  THEN [value |-> ProcRaised(r.raised), table |-> t.mem.promice_data]
  ELSE YearLoop(s, AlbedoWritten(t.mem, t, r.albedo), ys, i + 1,
                [raised |-> "",
                 cols |-> acc.cols \cup (IF i = 1 THEN ColsFirst ELSE ColsLater),
                 rows |-> acc.rows \o ProcFrame(RowsIn(t.mem, t), r, i - 1)])

YearLoop(s, mem, ys, i, acc) ==
  IF i > Len(ys) THEN [value |-> acc, table |-> mem.promice_data]
  ELSE LET t == Taken(mem, {k \in 1..Len(mem.promice_data) :
                              mem.promice_data[k].Year = ys[i]})
       IN YearDone(s, ys, i, acc, t, DPT_processing(s, RowsIn(t.mem, t), ys[i]))

\* A call of BIC_processing(promice): what it returns or raises (value) and
\* the rows of the table passed, after the call (table).  s and yrv are the
\* globals site and yr the function reads; line 1013 reads a yr that no
\* load_data has set.  The single-year branch copies the table (line 1077)
\* and raises before anything is written.
ProcessRun(s, yrv, promice) ==
  IF yrv = Unset THEN [value |-> ProcRaised("NameError"), table |-> promice.rows]
  ELSE IF yrv.kind \in {"all", "list"}
  THEN LET ys == IF yrv.kind = "all" THEN YearsIn(promice.rows) ELSE yrv.v
       IN IF promice.none /\ (yrv.kind = "all" \/ Len(ys) > 0)
          THEN [value |-> ProcRaised("AttributeError"),   \* None.Year (lines 1017, 1024)
                table |-> promice.rows]
          ELSE IF Len(ys) = 0
          THEN [value |-> ProcRaised("UnboundLocalError"), \* line 1116: nothing assigned
                table |-> promice.rows]
          ELSE YearLoop(s, [promice_data |-> promice.rows, df_y |-> <<>>], ys, 1,
                        [raised |-> "", cols |-> {}, rows |-> <<>>])
  ELSE IF promice.none
       THEN [value |-> ProcRaised("AttributeError"),      \* None.copy() (line 1077)
             table |-> promice.rows]
       ELSE [value |-> ProcRaised("UnboundLocalError"),   \* line 1081 reads y, never assigned
             table |-> promice.rows]

\* what BIC_processing(promice) returns or raises
BIC_processing(s, yrv, promice) == ProcessRun(s, yrv, promice).value

\* the table passed to BIC_processing, after the call
TableAfter(s, yrv, promice) ==
  IF promice.none THEN promice ELSE Frame(ProcessRun(s, yrv, promice).table)

\* The frame df handed to DPT_processing, after a call that returned r:
\* albedo is the column of df (line 933), so albedo += 0.034 and
\* albedo[:] = np.nan (lines 937-940) write into df; z is a copy (line 111).
DfAfter(df, r) ==
  [i \in 1..Len(df) |-> [df[i] EXCEPT !.Albedo = r.albedo[i]]]

\* ------------------------------------------------------------------------
\* BIC_composite (lines 1119-1338)

\* sites = list(Counter(sites)) (lines 1146-1152)
RECURSIVE Unique(_)
Unique(l) ==
  IF Len(l) = 0 THEN <<>>
  ELSE LET u == Unique(SubSeq(l, 1, Len(l) - 1))
       IN IF \E j \in 1..Len(u) : u[j] = l[Len(l)] THEN u ELSE Append(u, l[Len(l)])

SitesOf(fs) == Unique([k \in 1..Len(fs) |-> SiteOfFile(fs[k].name)])

\* "_".join(parts)
RECURSIVE Join(_)
Join(parts) ==
  IF Len(parts) = 1 THEN parts[1] ELSE parts[1] \o "_" \o Join(Tail(parts))

\* the character c put before the first part of parts
SplitCons(c, parts) == <<c \o Head(parts)>> \o Tail(parts)

\* str.split("_")
RECURSIVE Split(_)
Split(str) ==
  IF Len(str) = 0 THEN <<"">>
  ELSE IF Head(str) = "_" THEN <<"">> \o Split(Tail(str))
  ELSE SplitCons(Head(str), Split(Tail(str)))

\* the file inpath + s + "_day_v03_upd.txt" (line 1175), pre what follows
\* the last separator of inpath: a name that starts with pre and ends with
\* day_v03_upd.txt, so that the file is one glob found if it is there
FileOfSite(fs, pre, s) ==
  LET str == pre \o s \o "_day_v03_upd.txt"
  IN IF \E k \in 1..Len(fs) : Join(fs[k].name) = str
     THEN fs[CHOOSE k \in 1..Len(fs) : Join(fs[k].name) = str]
     ELSE NoSuchFile(Split(str))

\* time_span = 2 * dt + 1 (line 1162)
TimeSpan(d) == 2 * d + 1

\* Mutant of Qualifies: the albedo flag is not looked at.
Qualifies_flagonly(df_yr) == df_yr[1].DPT_flag = 3

\* line 1183
Qualifies(df_yr) == df_yr[1].DPT_flag = 3 /\ df_yr[1].Albedo_flag = 1

\* a row of NaN appended to fill the window (lines 1195-1200)
PadRow ==
  [DPT_proc |-> NaN, DPT_flag |-> NaN, BID |-> NaN, DOY |-> NaN, Year |-> NaN,
   Air_temperature_C |-> NaN, Albedo_theta_inf_70d |-> NaN, Albedo_flag |-> NaN,
   HeightSensorBoom_m |-> NaN, Height_sensor_boom_m |-> NaN]

\* Mutant of WindowRows: the window is not padded.
WindowRows_nopad(df_yr, BID, d) ==
  RowsAt(df_yr, {k \in 1..Len(df_yr) :
                   df_yr[k].DOY >= BID - d /\ df_yr[k].DOY <= BID + d})

\* df_yr[(df_yr.DOY >= BID - dt) & (df_yr.DOY <= BID + dt)] (lines 1187-1189)
WindowOf(df_yr, BID, d) ==
  RowsAt(df_yr, {k \in 1..Len(df_yr) :
                   df_yr[k].DOY >= BID - d /\ df_yr[k].DOY <= BID + d})

\* len(df_yr_comp) != time_span with more rows than time_span: np.zeros of
\* a negative number of rows raises ValueError (line 1196)
TooLong(comp, d) == Len(comp) > TimeSpan(d)

\* time_span - len(df_yr_comp) rows of NaN appended (lines 1195-1200)
Padded(comp, d) == comp \o [k \in 1..(TimeSpan(d) - Len(comp)) |-> PadRow]

\* df_yr_comp: the rows of BID - dt <= DOY <= BID + dt, then rows of NaN up
\* to time_span rows (lines 1187-1200)
WindowRows(df_yr, BID, d) == Padded(WindowOf(df_yr, BID, d), d)

\* lines 1202-1207: mean_boom_height - Height_sensor_boom_m, the mean taken
\* over the positions dt+10 .. dt+29 of the window (from 0); a fraction
\* <<num, den>>
SnowHeight(comp, d) ==
  LET h == Col(comp, "Height_sensor_boom_m")
      I == {k \in 1..Len(h) : k >= d + 11 /\ k <= d + 30 /\ h[k] # NaN}
      n == Cardinality(I)
      S == SumOver(h, I)
  IN [k \in 1..Len(h) |->
        IF n = 0 \/ h[k] = NaN THEN NaN ELSE <<S - n * h[k][1], n>>]

\* composite = {var: np.zeros(time_span) for var in variables} (line 1164)
EmptyComposite(d) ==
  LET zeros == [k \in 1..TimeSpan(d) |-> Num(0)]
  IN [air_temperature_degrees |-> <<zeros>>, ice_ablation_meters |-> <<zeros>>,
      snow_height_meters |-> <<zeros>>, albedo_unitless |-> <<zeros>>]

\* np.vstack of the four rows of one station-year (lines 1209-1212)
Stack(comp, rows, d) ==
  [air_temperature_degrees |->
     Append(comp.air_temperature_degrees, Col(rows, "Air_temperature_C")),
   ice_ablation_meters |-> Append(comp.ice_ablation_meters, Col(rows, "DPT_proc")),
   snow_height_meters |-> Append(comp.snow_height_meters, SnowHeight(rows, d)),
   albedo_unitless |->
     Append(comp.albedo_unitless, Col(rows, "Albedo_theta_inf_70d"))]

\* "<station>_<year>" (lines 1185 and 1320)
Label(sy) == sy[1] \o "_" \o ToString(sy[2])

\* the DataFrames returned (lines 1214 and 1322-1328): the first row of
\* zeros dropped, the rows labelled by station year, the columns by -dt..dt
Matrix(m, labels, d) ==
  [index |-> [k \in 1..Len(labels) |-> Label(labels[k])],
   columns |-> [k \in 1..TimeSpan(d) |-> k - 1 - d],
   values |-> Tail(m)]

\* ------------------------------------------------------------------------
\* The inputs of the model.

\* rows a year's table holds at most
MaxRows == 3
\* days of the year the rows are drawn from
Days == {100, 120, 158, 204, 230, 260}
\* raw depths (0.001 m) and raw albedos (0.001), NaN for the -999 of the file
DepthVals == {NaN, Num(0), Num(-100)}
AlbedoVals == {NaN, Num(500)}
\* (site, year) pairs handed to DPT_processing
StationYears ==
  { <<"NUK_U", 2010>>, <<"NUK_U", 2011>>, <<"NUK_U", 2009>>, <<"NUK_U", 2006>>,
    <<"KAN_L", 2009>>, <<"KAN_L", 2010>>, <<"NUK_L", 2012>>, <<"QAS_L", 2010>>,
    <<"TAS_L", 2013>>, <<"THU_U2", 2018>>, <<"THU_U2", 2017>>,
    <<"KAN_U", 2010>>, <<"XXX_L", 2010>>, <<"NUK_L", 2013>> }

\* lists of days to exclude
DayLists == { <<>>, <<204>>, <<120, 204>>, <<204, 204>>, <<23, 24, 204>> }

\* the row of day d: an air temperature and a boom height that tell the days
\* apart
Sample(yy, d, dpt, alb) == Row(yy, d, dpt, alb, Num(d - 150), Num(2600 - d))

\* the tables of one year with at most n rows, of days later than after:
\* rows of increasing day, as in the daily files
RECURSIVE YearTables(_, _, _, _, _, _)
YearTables(yy, n, after, days, dvals, avals) ==
  {<<>>} \cup
  (IF n = 0 THEN {}
   ELSE UNION { { <<Sample(yy, d, va[1], va[2])>> \o rest :
                    va \in dvals \X avals,
                    rest \in YearTables(yy, n - 1, d, days, dvals, avals) } :
                d \in {dd \in days : dd > after} })

\* Tables with a depth that is, in exact decimals, on a threshold.  NUK_L
\* 2015 (flag 3, onset day 159, no correction): a sample 0.06 m below the
\* one pre-melt sample, where 0.04 - 0.1 and -2.66 - -2.6 are below -0.06 as
\* floats and -0.06 - 0 is not.  KAN_L 2016: a sample that the shift by -1.6
\* puts on -4.5, the bound of the mask that follows.
TieTables ==
  { <<"NUK_L", 2015, << Sample(2015, 150, Num(100), Num(500)),
                        Sample(2015, 160, Num(40), Num(500)) >> >>,
    <<"NUK_L", 2015, << Sample(2015, 150, Num(100), Num(500)),
                        Sample(2015, 160, Num(40), Num(500)),
                        Sample(2015, 170, Num(-500), Num(500)) >> >>,
    <<"NUK_L", 2015, << Sample(2015, 150, Num(-2600), Num(500)),
                        Sample(2015, 160, Num(-2660), Num(500)) >> >>,
    <<"NUK_L", 2015, << Sample(2015, 150, Num(0), Num(500)),
                        Sample(2015, 160, Num(-60), Num(500)),
                        Sample(2015, 170, Num(-500), Num(500)) >> >>,
    <<"KAN_L", 2016, << Sample(2016, 90, Num(0), Num(500)),
                        Sample(2016, 260, Num(-2900), Num(500)),
                        Sample(2016, 261, Num(-3000), Num(500)) >> >> }

\* no call made yet
None == Raised("")

\* BIC_composite not running
Idle ==
  /\ files = <<>>
  /\ inpath = ""
  /\ dt = 0
  /\ sites = <<>>
  /\ promice_data = NoFrame
  /\ df_corr = ProcRaised("")
  /\ years = <<>>
  /\ composite = EmptyComposite(0)
  /\ station_years = <<>>
  /\ stations = <<>>

\* load_data(file, 'all') was called for a file of site, and BIC_processing
\* is about to call DPT_processing on the rows of year y
Init ==
  /\ \/ \E sy \in StationYears :
          /\ site = sy[1]
          /\ y = sy[2]
          /\ df_y \in YearTables(sy[2], MaxRows, 0, Days, DepthVals, AlbedoVals) \ {<<>>}
     \/ \E t \in TieTables : site = t[1] /\ y = t[2] /\ df_y = t[3]
  /\ df_y_init = df_y
  /\ yr = AllYears
  /\ loaded = [site |-> site, yr |-> AllYears]
  /\ z = <<>>
  /\ ret = None
  /\ pc = "call"
  /\ Idle

\* BIC_processing's call of DPT_processing on one year's rows (lines
\* 1027-1029), up to the end of the table branch (lines 109-928)
DPT_table ==
  /\ pc = "call"
  /\ z' = Corrected(site, df_y, y)
  /\ pc' = "table"
  /\ UNCHANGED <<loaded, site, yr, df_y, df_y_init, y, ret, cvars>>

\* the rest of the call (lines 930-958); the z returned is the global z, and
\* the albedo returned is the albedo column of df_y
DPT_return ==
  /\ pc = "table"
  /\ ret' = DPT_processing(site, df_y, y)
  /\ z' = IF ret'.raised = "" THEN ret'.z ELSE z
  /\ df_y' = IF ret'.raised = "" THEN DfAfter(df_y, ret') ELSE df_y
  /\ pc' = "returned"
  /\ UNCHANGED <<loaded, site, yr, df_y_init, y, cvars>>

Next == DPT_table \/ DPT_return

Spec == Init /\ [][Next]_vars

\* ------------------------------------------------------------------------
\* BIC_composite on a directory of files.

\* the dt asked for
DtVals == {1, 2}
\* the days, depths and albedos of the rows of the files
CDays == {120, 157, 158, 159}
CDepthVals == {Num(0), Num(-100)}
CAlbedoVals == {Num(500)}

\* NUK_L 2011 (flag 3, albedo invalid) and NUK_L 2014 (flag 3): a drop of
\* 0.1 m at day 157
NUK_L_2011 == << Sample(2011, 120, Num(0), Num(500)), Sample(2011, 157, Num(-100), Num(500)) >>
NUK_L_2014 ==
  << Sample(2014, 120, Num(0), Num(500)), Sample(2014, 157, Num(-100), Num(500)),
     Sample(2014, 158, Num(-100), Num(500)) >>

FileName(a, b) == <<a, b, "day", "v03", "upd.txt">>

\* the file of NUK_L: 2011 or not, any rows of 2012 or none, 2014 or not
NUK_L_files ==
  { File(FileName("NUK", "L"), t1 \o t2 \o t3) :
      t1 \in {<<>>, NUK_L_2011},
      t2 \in YearTables(2012, MaxRows, 0, CDays, CDepthVals, CAlbedoVals),
      t3 \in {<<>>, NUK_L_2014} }

\* files of other stations: an accumulation site, THU_U2 with a row of 2017,
\* NUK_U with 2009 (flag 0) and 2010 (flag 3)
OtherFiles ==
  { File(FileName("KAN", "U"), << Sample(2012, 158, Num(0), Num(500)) >>),
    File(FileName("THU", "U2"), << Sample(2017, 158, Num(0), Num(500)) >>),
    File(FileName("NUK", "U"),
         << Sample(2009, 120, Num(0), Num(500)),
            Sample(2010, 120, Num(0), Num(500)),
            Sample(2010, 157, Num(-100), Num(500)),
            Sample(2010, 158, Num(-100), Num(500)) >>) }

\* what glob may return
Dirs ==
  { <<f>> : f \in NUK_L_files } \cup
  { <<f, g>> : f \in NUK_L_files, g \in OtherFiles } \cup
  { <<g, f>> : f \in NUK_L_files, g \in OtherFiles }

\* a dt that puts day BID + 30 inside the window, and NUK_L 2014 with a row
\* on day 120 and on every day from 127 to 187: a drop of 0.1 m at day 157
LongDt == 30
NUK_L_2014_long ==
  << Sample(2014, 120, Num(0), Num(500)) >> \o
  [k \in 1..61 |-> Sample(2014, 126 + k, IF 126 + k < 157 THEN Num(0) ELSE Num(-100),
                          Num(500))]
LongDir == << File(FileName("NUK", "L"), NUK_L_2011 \o NUK_L_2014_long) >>

\* directories with a file of CEN, which is skipped, and with a file of a
\* station code of four letters starting with CEN: the site is CENT, and no
\* file CENT_day_v03_upd.txt is there
CEN_file == File(<<"CEN", "day", "v03", "upd.txt">>, << Sample(2012, 158, Num(0), Num(500)) >>)
CENT_L_file == File(FileName("CENT", "L"), << Sample(2018, 150, Num(0), Num(500)) >>)
OddDirs ==
  { << CEN_file, File(FileName("NUK", "L"), NUK_L_2014) >>,
    << CENT_L_file >>,
    << File(FileName("NUK", "L"), NUK_L_2014), CENT_L_file, CEN_file >> }

\* NUK_L 2014 with the days 157 and 158 twice: with dt = 1 the window holds
\* four rows
NUK_L_2014_twice ==
  << Sample(2014, 120, Num(0), Num(500)), Sample(2014, 157, Num(-100), Num(500)),
     Sample(2014, 157, Num(-100), Num(500)), Sample(2014, 158, Num(-100), Num(500)),
     Sample(2014, 158, Num(-100), Num(500)) >>
RepeatDirs ==
  { << File(FileName("NUK", "L"), NUK_L_2011 \o NUK_L_2014_twice) >>,
    << File(FileName("NUK", "L"), NUK_L_2014_twice) >> }

\* an inpath that ends with "pre" and no separator: glob finds the files
\* whose names start with pre
InpathPrefix == "pre"
PrefixDirs ==
  { << File(FileName("preNUK", "L"), NUK_L_2011 \o NUK_L_2014) >>,
    << File(FileName("preNUK", "L"), NUK_L_2011 \o NUK_L_2014),
       File(FileName("prepreNUK", "L"), NUK_L_2014) >> }

\* the calls of BIC_composite: the directory, dt and the end of inpath
CompositeCalls ==
  { <<d, t, "">> : d \in Dirs, t \in DtVals } \cup
  { <<LongDir, LongDt, "">> } \cup
  { <<d, 1, "">> : d \in OddDirs \cup RepeatDirs } \cup
  { <<d, 1, InpathPrefix>> : d \in PrefixDirs }

\* the caller holds no table yet
NotLoaded == [site |-> "", yr |-> Unset]

InitComposite ==
  /\ \E c \in CompositeCalls : files = c[1] /\ dt = c[2] /\ inpath = c[3]
  /\ site = ""
  /\ yr = Unset
  /\ loaded = NotLoaded
  /\ z = <<>>
  /\ df_y = <<>>
  /\ df_y_init = <<>>
  /\ y = 0
  /\ sites = <<>>
  /\ promice_data = NoFrame
  /\ df_corr = ProcRaised("")
  /\ years = <<>>
  /\ composite = EmptyComposite(0)
  /\ station_years = <<>>
  /\ stations = <<>>
  /\ ret = None
  /\ pc = "c_start"

\* BIC_composite raised exc
CompRaised(exc) ==
  /\ ret' = [raised |-> exc]
  /\ pc' = "c_raised"

\* lines 1143-1167
CompStart ==
  /\ pc = "c_start"
  /\ sites' = SitesOf(files)
  /\ composite' = EmptyComposite(dt)
  /\ station_years' = <<>>
  /\ stations' = <<>>
  /\ pc' = "c_sites"
  /\ UNCHANGED <<loaded, site, yr, dvars, files, inpath, dt, promice_data, df_corr, years, ret>>

\* lines 1171-1173: stations in the accumulation area are not used
CompSkip ==
  /\ pc = "c_sites"
  /\ Len(sites) > 0
  /\ Head(sites) \in {"CEN", "EGP", "KAN_U"}
  /\ sites' = Tail(sites)
  /\ UNCHANGED <<loaded, site, yr, dvars, files, inpath, dt, promice_data, df_corr, years,
                 composite, station_years, stations, ret, pc>>

\* line 1175: df = load_data(file=inpath + s + "_day_v03_upd.txt", year="all")
CompLoad ==
  /\ pc = "c_sites"
  /\ Len(sites) > 0
  /\ Head(sites) \notin {"CEN", "EGP", "KAN_U"}
  /\ LET r == load_data(FileOfSite(files, inpath, Head(sites)), AllYears)
     IN /\ site' = r.site
        /\ yr' = IF r.yr_set THEN r.yr ELSE yr
        /\ IF r.raised # ""
           THEN /\ CompRaised(r.raised)
                /\ UNCHANGED <<promice_data, loaded>>
           ELSE /\ promice_data' = r.promice_data
                /\ loaded' = [site |-> r.site, yr |-> r.yr]
                /\ pc' = "c_loaded"
                /\ UNCHANGED ret
  /\ UNCHANGED <<dvars, files, inpath, dt, sites, df_corr, years, composite,
                 station_years, stations>>

\* the global z after BIC_processing: the z of the last call of
\* DPT_processing, as the table branch left it if the call raised
RECURSIVE LastZ(_, _, _, _, _)
LastZ(s, rows, ys, i, cur) ==
  IF i > Len(ys) THEN cur
  ELSE LET r == DPT_processing(s, RowsOfYear(rows, ys[i]), ys[i])
       IN IF r.raised # "" THEN Corrected(s, RowsOfYear(rows, ys[i]), ys[i])
          ELSE LastZ(s, rows, ys, i + 1, r.z)

\* lines 1176-1178: df_corr = BIC_processing(df) and the years of df_corr
CompProcess ==
  /\ pc = "c_loaded"
  /\ LET r == BIC_processing(site, yr, promice_data)
     IN IF r.raised # ""
        THEN /\ CompRaised(r.raised)
             /\ UNCHANGED <<df_corr, years>>
        ELSE /\ df_corr' = r
             /\ years' = YearsIn(r.rows)
             /\ pc' = "c_years"
             /\ UNCHANGED ret
  /\ z' = IF promice_data.none THEN z
          ELSE LastZ(site, promice_data.rows, YearsIn(promice_data.rows), 1, z)
  /\ promice_data' = TableAfter(site, yr, promice_data)
  /\ UNCHANGED <<loaded, site, yr, df_y, df_y_init, y, files, inpath, dt, sites, composite,
                 station_years, stations>>

\* lines 1180-1212: one year of the station
CompYear ==
  /\ pc = "c_years"
  /\ Len(years) > 0
  /\ LET df_yr == RowsOfYear(df_corr.rows, Head(years))
     IN IF Qualifies(df_yr)
        THEN /\ station_years' = Append(station_years, Head(sites))
             /\ stations' = Append(stations, <<Head(sites), Head(years)>>)
             /\ IF df_yr[1].BID = NaN
                THEN /\ CompRaised("ValueError")           \* int(nan), line 1186
                     /\ UNCHANGED <<composite, years>>
                ELSE IF TooLong(WindowOf(df_yr, df_yr[1].BID[1], dt), dt)
                THEN /\ CompRaised("ValueError")           \* np.zeros, line 1196
                     /\ UNCHANGED <<composite, years>>
                ELSE IF "Height_sensor_boom_m" \notin df_corr.cols
                THEN /\ CompRaised("AttributeError")       \* line 1203
                     /\ UNCHANGED <<composite, years>>
                ELSE /\ composite' =
                          Stack(composite, WindowRows(df_yr, df_yr[1].BID[1], dt), dt)
                     /\ years' = Tail(years)
                     /\ UNCHANGED <<ret, pc>>
        ELSE /\ years' = Tail(years)
             /\ UNCHANGED <<composite, station_years, stations, ret, pc>>
  /\ UNCHANGED <<loaded, site, yr, dvars, files, inpath, dt, sites, promice_data, df_corr>>

\* the years of the station are done: next site
CompNextSite ==
  /\ pc = "c_years"
  /\ Len(years) = 0
  /\ sites' = Tail(sites)
  /\ pc' = "c_sites"
  /\ UNCHANGED <<loaded, site, yr, dvars, files, inpath, dt, promice_data, df_corr, years,
                 composite, station_years, stations, ret>>

\* lines 1214-1338: with no row stacked, composite[var] is the one row of
\* zeros and composite[var][1:, :] has an index too many
CompFinish ==
  /\ pc = "c_sites"
  /\ Len(sites) = 0
  /\ IF Len(composite.air_temperature_degrees) = 1
     THEN CompRaised("IndexError")
     ELSE /\ ret' = [raised |-> "",
                     air_temperature_degrees |->
                       Matrix(composite.air_temperature_degrees, stations, dt),
                     ice_ablation_meters |->
                       Matrix(composite.ice_ablation_meters, stations, dt),
                     snow_height_meters |->
                       Matrix(composite.snow_height_meters, stations, dt),
                     albedo_unitless |->
                       Matrix(composite.albedo_unitless, stations, dt)]
          /\ pc' = "c_done"
  /\ UNCHANGED <<loaded, site, yr, dvars, cvars>>

NextComposite ==
  \/ CompStart
  \/ CompSkip
  \/ CompLoad
  \/ CompProcess
  \/ CompYear
  \/ CompNextSite
  \/ CompFinish

SpecComposite == InitComposite /\ [][NextComposite]_vars

\* ------------------------------------------------------------------------
\* A script that calls load_data and BIC_processing in any order.

\* the files the script reads: NUK_L with any rows of 2012 and with 2014 or
\* not, and NUK_U with a row of 2012 and one of 2014
CallDays == {120, 158}
NUK_L_calls ==
  { File(FileName("NUK", "L"), t2 \o t3) :
      t2 \in YearTables(2012, MaxRows, 0, CallDays, CDepthVals, CAlbedoVals),
      t3 \in {<<>>, NUK_L_2014} }
NUK_U_call ==
  File(FileName("NUK", "U"),
       << Sample(2012, 120, Num(0), Num(500)), Sample(2014, 158, Num(-100), Num(500)) >>)

\* the year selections of the calls
YearSels == {AllYears, OneYear(2012), OneYear(2013), YearList(<<2012, 2014>>)}

InitCalls ==
  /\ \E f \in NUK_L_calls : files = <<f, NUK_U_call>>
  /\ site = ""
  /\ yr = Unset
  /\ promice_data = NoFrame
  /\ loaded = NotLoaded
  /\ z = <<>>
  /\ df_y = <<>>
  /\ df_y_init = <<>>
  /\ y = 0
  /\ inpath = ""
  /\ dt = 0
  /\ sites = <<>>
  /\ df_corr = ProcRaised("")
  /\ years = <<>>
  /\ composite = EmptyComposite(0)
  /\ station_years = <<>>
  /\ stations = <<>>
  /\ ret = None
  /\ pc = "s_script"

\* load_data(file, year): the globals site and yr are set; with keep the
\* script assigns the result to the table it holds
CallLoad ==
  /\ pc = "s_script"
  /\ \E k \in 1..Len(files), sel \in YearSels, keep \in BOOLEAN :
       LET r == load_data(files[k], sel)
       IN /\ site' = r.site
          /\ yr' = IF r.yr_set THEN r.yr ELSE yr
          /\ ret' = [call |-> "load_data", file |-> files[k], year |-> sel,
                     raised |-> r.raised, printed |-> r.printed,
                     value |-> r.promice_data]
          /\ IF keep /\ r.raised = ""
             THEN /\ promice_data' = r.promice_data
                  /\ loaded' = [site |-> r.site, yr |-> r.yr]
             ELSE UNCHANGED <<promice_data, loaded>>
  /\ UNCHANGED <<dvars, files, inpath, dt, sites, df_corr, years, composite,
                 station_years, stations, pc>>

\* the global z after BIC_processing(promice) with the globals s and yrv
GlobalZ(s, yrv, promice, cur) ==
  IF promice.none \/ yrv.kind = "int" THEN cur
  ELSE LastZ(s, promice.rows,
             IF yrv.kind = "all" THEN YearsIn(promice.rows) ELSE yrv.v, 1, cur)

\* BIC_processing(d) on the table the script holds (None before the first
\* load_data); the function reads the globals site and yr
CallProcess ==
  /\ pc = "s_script"
  /\ LET r == BIC_processing(site, yr, promice_data)
     IN /\ ret' = [call |-> "BIC_processing", raised |-> r.raised, value |-> r]
        /\ df_corr' = IF r.raised = "" THEN r ELSE df_corr
  /\ z' = GlobalZ(site, yr, promice_data, z)
  /\ promice_data' = TableAfter(site, yr, promice_data)
  /\ UNCHANGED <<loaded, site, yr, df_y, df_y_init, y, files, inpath, dt, sites,
                 years, composite, station_years, stations, pc>>

NextCalls == CallLoad \/ CallProcess

SpecCalls == InitCalls /\ [][NextCalls]_vars

\* ------------------------------------------------------------------------
\* Properties of DPT_processing, checked under Spec.

doy_y == Col(df_y_init, "DayOfYear")
entry == Table(site, y)
returned == pc = "returned" /\ ret.raised = ""
\* the albedo flag is 1 when the detection starts: the entry does not mark
\* the albedo invalid and the albedo series is not entirely missing
albedo_usable == entry.albedo_flag = 1 /\ \E i \in 1..Len(df_y_init) : df_y_init[i].Albedo # NaN
\* the returned depth of row i is below -0.06 m: z < -0.06 for the float
\* returned, which the exact value decides unless it is -0.06
below_threshold(i) ==
  IF ret.z[i][1] = -60 * ret.z[i][2]
  THEN FLess(FloatBaselined(
               Baseline(CorrectedTraced(site, df_y_init, y), doy_y, entry.IAO)[i]),
             FromDec(-60))
  ELSE ret.z[i][1] < -60 * ret.z[i][2]
\* row i of the returned depth is below -0.06 m and later than the onset day
excursion(i) ==
  /\ doy_y[i] > entry.IAO[1]
  /\ ret.z[i] # NaN
  /\ below_threshold(i)
\* BID is the day of the first excursion, if there is one
bid_is_first ==
  (\E i \in 1..Len(df_y_init) : excursion(i)) =>
    \E i \in 1..Len(df_y_init) :
      /\ excursion(i)
      /\ ret.BID = <<doy_y[i]>>
      /\ \A j \in 1..Len(df_y_init) : doy_y[j] < doy_y[i] => ~excursion(j)

\* C1 as stated: with confidence flag 3, BID is the day of the first sample
\* after the approximate onset day whose baselined depth is below -0.06 m.
C1_AsStated == (returned /\ ret.DPT_flag = 3) => bid_is_first

\* C1 amended: with confidence flag 3 and an albedo flag of 1 when the
\* detection starts, BID is the day of the first sample after the onset day
\* whose baselined depth is below -0.06 m; with an albedo flag of 0 the
\* detection is skipped and BID is missing.
C1_FirstExcursion ==
  (returned /\ ret.DPT_flag = 3) =>
    /\ albedo_usable => bid_is_first
    /\ ~albedo_usable => ret.BID = NaN

\* the example of the spec: onset day 150, first excursion at day 158, and a
\* later excursion that is not taken
C1_Witness ==
  /\ returned /\ ret.DPT_flag = 3 /\ entry.IAO = <<150>>
  /\ ret.BID = <<158>>
  /\ \E i \in 1..Len(df_y_init) : doy_y[i] > 158 /\ excursion(i)

\* C3: a (station, year) with no entry in the table raises nothing and
\* returns confidence flag 0 with BID missing.
C3_NoEntryNoException ==
  (pc = "returned" /\ ~entry.bound) =>
    ret.raised = "" /\ ret.DPT_flag = 0 /\ ret.BID = NaN

\* same value: a raw or corrected depth c and a returned depth r
same_depth(c, r) ==
  \/ c = NaN /\ r = NaN
  \/ c # NaN /\ r # NaN /\ r[1] = c[1] * r[2]

\* C4: with a confidence flag other than 3 the depth series returned is the
\* series after the entry's adjustments, sample for sample, and the raw
\* series when the table has no entry.
C4_BaseliningSkipped ==
  (returned /\ ret.DPT_flag # 3) =>
    \A i \in 1..Len(df_y_init) :
      /\ same_depth(Corrected(site, df_y_init, y)[i], ret.z[i])
      /\ ~entry.bound => same_depth(df_y_init[i].DPT, ret.z[i])

\* C5: with a confidence flag other than 3, BID is missing.
C5_NoBidBelowFlag3 == (returned /\ ret.DPT_flag # 3) => ret.BID = NaN

\* flag 2 beside a written onset day (129), and a corrected depth that drops
\* by more than 0.06 m from a pre-melt sample to a sample after day 129
C5_Witness ==
  /\ returned /\ ret.DPT_flag = 2 /\ entry.IAO = <<129>> /\ albedo_usable
  /\ ret.BID = NaN
  /\ \E i, j \in 1..Len(df_y_init) :
       /\ doy_y[i] < 129 /\ doy_y[i] > 129 - 45 /\ doy_y[j] > 129
       /\ Corrected(site, df_y_init, y)[i] # NaN /\ Corrected(site, df_y_init, y)[j] # NaN
       /\ Corrected(site, df_y_init, y)[j][1] < Corrected(site, df_y_init, y)[i][1] - 60

\* C6: flag 3 and no sample after the onset day below -0.06 m: nothing is
\* raised, BID is missing and the albedo flag is 0.
C6_OnsetNotDetected ==
  (pc = "returned" /\ entry.bound /\ entry.DPT_flag = 3
     /\ ~\E i \in 1..Len(df_y_init) : excursion(i)) =>
    ret.raised = "" /\ ret.BID = NaN /\ ret.albedo_flag = 0

\* the detection ran (albedo flag 1) on samples after the onset day and
\* found none below the threshold
C6_Witness ==
  /\ returned /\ ret.DPT_flag = 3 /\ albedo_usable
  /\ \E i \in 1..Len(df_y_init) : doy_y[i] > entry.IAO[1] /\ ret.z[i] # NaN
  /\ ~\E i \in 1..Len(df_y_init) : excursion(i)
  /\ ret.BID = NaN /\ ret.albedo_flag = 0

\* the rows of the pre-melt window: IAO - 45 < day < IAO
premelt == {i \in 1..Len(df_y_init) :
              doy_y[i] > entry.IAO[1] - 45 /\ doy_y[i] < entry.IAO[1]}

\* C7 as stated: with flag 3 the mean of the non-missing returned depths of
\* the pre-melt window is 0.
C7_AsStated ==
  (returned /\ ret.DPT_flag = 3) =>
    /\ \E i \in premelt : ret.z[i] # NaN
    /\ SumOver(ret.z, {i \in premelt : ret.z[i] # NaN}) = 0

\* C7 amended: with flag 3, when the corrected depth has a non-missing sample
\* in the pre-melt window the mean of the non-missing returned depths of the
\* window is 0; when it has none, the whole returned depth series is missing.
C7_NullPreMelt ==
  (returned /\ ret.DPT_flag = 3) =>
    IF \E i \in premelt : Corrected(site, df_y_init, y)[i] # NaN
    THEN /\ \E i \in premelt : ret.z[i] # NaN
         /\ SumOver(ret.z, {i \in premelt : ret.z[i] # NaN}) = 0
    ELSE \A i \in 1..Len(df_y_init) : ret.z[i] = NaN

\* two window samples of different depth, so that the mean is neither
\* of them, and a sample before the window
C7_Witness ==
  /\ returned /\ ret.DPT_flag = 3
  /\ \E i, j \in premelt : ret.z[i] # NaN /\ ret.z[j] # NaN /\ ret.z[i][1] # ret.z[j][1]
  /\ \E i \in 1..Len(df_y_init) : doy_y[i] < entry.IAO[1] /\ ret.z[i] # NaN

\* C8: the albedo returned: entirely missing when the entry marks it
\* invalid; flag 0 when the series is entirely missing; otherwise every
\* sample is the raw sample plus 0.034.
C8_AlbedoBias ==
  returned =>
    /\ entry.albedo_flag = 0 => \A i \in 1..Len(df_y_init) : ret.albedo[i] = NaN
    /\ (\A i \in 1..Len(df_y_init) : df_y_init[i].Albedo = NaN) => ret.albedo_flag = 0
    /\ (entry.albedo_flag # 0 /\ \E i \in 1..Len(df_y_init) : df_y_init[i].Albedo # NaN) =>
         \A i \in 1..Len(df_y_init) :
           ret.albedo[i] = IF df_y_init[i].Albedo = NaN THEN NaN
                           ELSE <<df_y_init[i].Albedo[1] + 34>>

C8_Witness ==
  /\ returned /\ entry.albedo_flag = 1
  /\ \E i, j \in 1..Len(df_y_init) : ret.albedo[i] = <<534>> /\ ret.albedo[j] = NaN

raw(i) == df_y_init[i].DPT

\* C9: the statements of an entry act in the order written, each on the
\* series the earlier ones left.  NUK_U 2010: day 204 is shifted by -2.6 and
\* the days after it by -2.6 - 8.8, up to day 255.  KAN_L 2009 and 2010: a
\* sample from day 260 on that the first statement excluded (or that was
\* missing) is filled by the statement conditioned on missingness, and is
\* not shifted by a statement between the two.
C9_OrderOfAdjustments ==
  pc = "table" =>
    \A i \in 1..Len(df_y_init) :
      /\ (site = "NUK_U" /\ y = 2010) =>
           z[i] = IF doy_y[i] >= 256 \/ raw(i) = NaN THEN NaN
                  ELSE IF doy_y[i] > 204 THEN <<raw(i)[1] - 2600 - 8800>>
                  ELSE IF doy_y[i] > 203 THEN <<raw(i)[1] - 2600>>
                  ELSE raw(i)
      /\ (site = "KAN_L" /\ y = 2009 /\ doy_y[i] >= 260 /\ doy_y[i] # 276
            /\ (raw(i) = NaN \/ raw(i)[1] >= -3200)) => z[i] = <<-3500>>
      /\ (site = "KAN_L" /\ y = 2010 /\ doy_y[i] >= 260 /\ doy_y[i] # 284
            /\ (raw(i) = NaN \/ raw(i)[1] >= -5100)) => z[i] = <<-5450>>

\* NUK_U 2010 with non-missing samples at day 204 and between 205 and 255
C9_Witness ==
  /\ pc = "table" /\ site = "NUK_U" /\ y = 2010
  /\ \E i, j \in 1..Len(df_y_init) :
       /\ doy_y[i] = 204 /\ z[i] # NaN
       /\ doy_y[j] > 204 /\ doy_y[j] < 256 /\ z[j] # NaN

\* ------------------------------------------------------------------------
\* Claims about BIC_composite (SpecComposite)

\* the rows of the year yy in the file of station s, and what
\* DPT_processing gives for them
file_rows(s, yy) == RowsOfYear(FileOfSite(files, inpath, s).rows, yy)
processed(s, yy) == DPT_processing(s, file_rows(s, yy), yy)

\* the station-year passes: confidence flag 3, albedo flag 1, BID detected
passes(s, yy) ==
  LET r == processed(s, yy)
  IN r.raised = "" /\ r.DPT_flag = 3 /\ r.albedo_flag = 1 /\ r.BID # NaN

\* the station-years of the directory
dir_station_years ==
  UNION { { <<SiteOfFile(files[k].name), files[k].rows[i].Year>> :
              i \in 1..Len(files[k].rows) } : k \in 1..Len(files) }

\* the four matrices BIC_composite returned
matrices ==
  { ret.air_temperature_degrees, ret.ice_ablation_meters,
    ret.snow_height_meters, ret.albedo_unitless }

\* C2: a station-year is put on the list of contributed rows only if its
\* confidence flag is 3, its albedo flag is 1 and a BID was detected; the row
\* index of each of the four matrices returned is that list, and the label
\* of a station-year with albedo flag 0 or without BID is in none of them.
C2_OnlyQualifyingRows ==
  /\ \A k \in 1..Len(stations) : passes(stations[k][1], stations[k][2])
  /\ pc = "c_done" =>
       \A m \in matrices :
         /\ m.index = [k \in 1..Len(stations) |-> Label(stations[k])]
         /\ \A sy \in dir_station_years :
              ~passes(sy[1], sy[2]) =>
                \A k \in 1..Len(m.index) : m.index[k] # Label(sy)

\* BIC_composite returned; the file of NUK_L holds 2011 (albedo flag 0),
\* a 2012 without BID and 2014, and only 2014 is in the index
C2_Witness ==
  /\ pc = "c_done"
  /\ <<"NUK_L", 2011>> \in dir_station_years
  /\ <<"NUK_L", 2012>> \in dir_station_years
  /\ processed("NUK_L", 2011).albedo_flag = 0
  /\ processed("NUK_L", 2012).BID = NaN
  /\ ret.albedo_unitless.index = <<"NUK_L_2014">>

\* the position of the row of day d in rows, 0 if there is none
RowOfDay(rows, d) ==
  IF \E i \in 1..Len(rows) : rows[i].DayOfYear = d
  THEN CHOOSE i \in 1..Len(rows) : rows[i].DayOfYear = d
  ELSE 0

\* C10 as stated, for the air temperature, the ice ablation and the albedo:
\* in the row of a station-year, the column labelled k holds the
\* station-year's value on day BID + k, missing when that day has no row.
C10_ColumnsAligned ==
  pc = "c_done" =>
    \A n \in 1..Len(stations) :
      LET s == stations[n][1]
          yy == stations[n][2]
          r == processed(s, yy)
      IN \A j \in 1..TimeSpan(dt) :
           LET k == ret.air_temperature_degrees.columns[j]
               i == RowOfDay(file_rows(s, yy), r.BID[1] + k)
           IN /\ ret.air_temperature_degrees.values[n][j] =
                   (IF i = 0 THEN NaN ELSE file_rows(s, yy)[i].AirT)
              /\ ret.ice_ablation_meters.values[n][j] =
                   (IF i = 0 THEN NaN ELSE r.z[i])
              /\ ret.albedo_unitless.values[n][j] =
                   (IF i = 0 THEN NaN ELSE r.albedo[i])

\* the station-years of the directory that pass, and the number of rows of
\* the station-year (s, yy) with a day in [BID - dt, BID + dt]
qualifying == {sy \in dir_station_years : passes(sy[1], sy[2])}
in_window(s, yy) ==
  LET b == processed(s, yy).BID[1]
      rows == file_rows(s, yy)
  IN Cardinality({i \in 1..Len(rows) :
                    rows[i].DayOfYear >= b - dt /\ rows[i].DayOfYear <= b + dt})

\* C11: each of the four matrices returned has one row per qualifying
\* station-year and 2*dt+1 columns; every row has 2*dt+1 values, the values
\* of the rows of the window first and missing values after them; the
\* labels are as many as the rows and each qualifying station-year has one.
C11_RowsAndColumns ==
  pc = "c_done" =>
    LET q == qualifying
    IN /\ \A m \in matrices :
            /\ Len(m.values) = Cardinality(q)
            /\ Len(m.index) = Len(m.values)
            /\ Len(m.columns) = 2 * dt + 1
            /\ \A sy \in q :
                 Cardinality({n \in 1..Len(m.index) : m.index[n] = Label(sy)}) = 1
            /\ \A n \in 1..Len(m.values) : Len(m.values[n]) = 2 * dt + 1
       /\ \A n \in 1..Len(stations) :
            LET w == in_window(stations[n][1], stations[n][2])
            IN \A m \in matrices :
                 \A j \in 1..Len(m.values[n]) : j > w => m.values[n][j] = NaN

\* BIC_composite returned two rows for dt = 2: the window of NUK_L 2012 has
\* two rows and three missing values after them, that of NUK_L 2014 two
C11_Witness ==
  /\ pc = "c_done"
  /\ dt = 2
  /\ stations = << <<"NUK_L", 2012>>, <<"NUK_L", 2014>> >>
  /\ in_window("NUK_L", 2012) = 2
  /\ ret.air_temperature_degrees.values[1] = << Num(7), Num(8), NaN, NaN, NaN >>
  /\ Len(ret.albedo_unitless.values[2]) = 5

\* C12 as stated, on the matrix returned: in the row of each station-year
\* the transformed boom heights in the columns 10 to 30, the days BID + 10
\* to BID + 30, have mean 0 (the sum of their numerators is 0) when one of
\* them is present.
C12_MeanZeroOver10To30 ==
  pc = "c_done" =>
    \A n \in 1..Len(stations) :
      LET m == ret.snow_height_meters
          I == {j \in 1..Len(m.columns) :
                  m.columns[j] >= 10 /\ m.columns[j] <= 30 /\ m.values[n][j] # NaN}
      IN I # {} => SumOver(m.values[n], I) = 0

\* C13 as stated: the table BIC_processing returned for the years of a
\* station has the nine columns of the first year's frame, and every row
\* holds its boom height in the column HeightSensorBoom_m.
C13_OneBoomColumn ==
  pc = "c_years" =>
    /\ df_corr.cols = ColsFirst
    /\ \A k \in 1..Len(df_corr.rows) :
         df_corr.rows[k].HeightSensorBoom_m = promice_data.rows[k].Boom

\* C14 as stated: BIC_composite does not raise.
C14_NeverRaises == pc # "c_raised"

\* ------------------------------------------------------------------------
\* Claims about sequences of calls (SpecCalls)

\* the last call was BIC_processing, or load_data
processed_last == ret # None /\ ret.call = "BIC_processing"
loaded_last == ret # None /\ ret.call = "load_data"

\* C15 as stated: BIC_processing on the table of one integer year that has
\* rows, right after the load_data call that selected it, does not raise and
\* returns the table of that year with the nine columns.
C15_SingleYearProcessed ==
  (processed_last /\ yr.kind = "int" /\ loaded = [site |-> site, yr |-> yr]
     /\ ~promice_data.none) =>
    /\ ret.raised = ""
    /\ ret.value.cols = ColsFirst
    /\ Len(ret.value.rows) = Len(promice_data.rows)

\* C16: load_data for a year without rows prints the error and returns
\* None; for an integer year with rows it returns the rows of the file whose
\* Year is that year, all of them and no other, in the order of the file;
\* for 'all' it returns every row of the file.
C16_LoadedRows ==
  loaded_last =>
    LET rows == ret.file.rows
        of_year == SelectSeq(rows, LAMBDA r : ret.year.kind = "int" /\ r.Year = ret.year.v[1])
    IN /\ (ret.year.kind = "int" /\ Len(of_year) = 0) =>
            ret.raised = "" /\ ret.value = NoFrame /\ ret.printed = NotAvailable
       /\ (ret.year.kind = "int" /\ Len(of_year) > 0) =>
            ret.raised = "" /\ ret.value = Frame(of_year) /\ ret.printed = ""
       /\ (ret.year.kind = "all" /\ Len(rows) > 0) =>
            ret.raised = "" /\ ret.value = Frame(rows) /\ ret.printed = ""
       /\ (ret.year.kind = "all" /\ Len(rows) = 0) =>
            ret.raised = "" /\ ret.value = NoFrame /\ ret.printed = NotAvailable

\* the script holds what load_data(NUK_L file, 2012) returned, the two rows
\* of 2012 of a file that holds 2014 too, and load_data(file, 2013) has just
\* printed the error and returned None
C16_Witness ==
  /\ loaded_last
  /\ ret.year = OneYear(2013)
  /\ ret.value = NoFrame
  /\ ret.printed = NotAvailable
  /\ loaded = [site |-> "NUK_L", yr |-> OneYear(2012)]
  /\ Len(files[1].rows) = 5
  /\ promice_data = Frame(SubSeq(files[1].rows, 1, 2))

\* C19 as stated: BIC_processing(d) gives what the correction rules of the
\* station d was loaded from and the year selection d was loaded with give,
\* whatever load_data calls came since.
C19_RulesOfTheLoadedTable ==
  processed_last =>
    LET r == BIC_processing(loaded.site, loaded.yr, promice_data)
    IN ret.raised = r.raised /\ ret.value = r

\* ------------------------------------------------------------------------
\* Claims about DPT_processing (Spec), continued

\* the days of a list
days_of(days) == {days[j] : j \in 1..Len(days)}

\* C17: assign_nans sets the depth to missing at the rows whose day is one
\* of the listed days, whatever their value, and leaves every other sample
\* as it is; excluding the days again, or listing them twice, changes
\* nothing more.  Checked on the raw series of NUK_L 2013 for each list of
\* DayLists, and on the z the table branch of NUK_L 2013 leaves, which
\* excludes the days 23, 24 and 204.
C17_Exclusion ==
  /\ (pc = "call" /\ site = "NUK_L" /\ y = 2013) =>
       \A days \in DayLists :
         LET zs == Col(df_y_init, "DPT")
             r == assign_nans(days, zs, doy_y)
         IN /\ Len(r) = Len(zs)
            /\ \A i \in 1..Len(zs) :
                 r[i] = IF doy_y[i] \in days_of(days) THEN NaN ELSE zs[i]
            /\ assign_nans(days, r, doy_y) = r
            /\ assign_nans(days \o days, zs, doy_y) = r
  /\ (pc = "table" /\ site = "NUK_L" /\ y = 2013) =>
       \A i \in 1..Len(z) :
         /\ doy_y[i] \in {23, 24, 204} => z[i] = NaN
         /\ (doy_y[i] \notin {23, 24, 204} /\ raw(i) # NaN) => z[i] # NaN

\* the table branch of NUK_L 2013 ran on a year with a depth on day 204 and
\* on another day: the first is missing, the other is not
C17_Witness ==
  /\ pc = "table" /\ site = "NUK_L" /\ y = 2013
  /\ \E i, j \in 1..Len(z) :
       /\ doy_y[i] = 204 /\ raw(i) = Num(-100) /\ z[i] = NaN
       /\ doy_y[j] = 158 /\ raw(j) # NaN /\ z[j] # NaN

\* the sites the if/elif chain names and the years it may be asked about
TableSites ==
  { "NUK_U", "NUK_L", "NUK_N", "NUK_K", "UPE_L", "UPE_U", "KPC_L", "KPC_U",
    "KAN_L", "KAN_M", "KAN_U", "QAS_M", "QAS_A", "QAS_L", "QAS_U", "THU_L",
    "THU_U", "THU_U2", "SCO_L", "SCO_U", "TAS_A", "TAS_L", "TAS_U", "MIT",
    "EGP", "CEN" }
TableYears == 2005..2021

\* for every entry after which DPT_processing goes on: the flag is one of
\* 0, 1, 2, 3 and the onset day after lines 926-931 is missing unless the
\* flag is 3
entries_ok ==
  \A s \in TableSites, year \in TableYears :
    LET e == Table(s, year)
    IN (e.bound \/ e.no_proc = 1) =>
         /\ FlagOf(e) \in 0..3
         /\ FlagOf(e) # 3 => IAOOf(e) = NaN

\* C18: the onset day used for the baseline and the detection is missing
\* unless the confidence flag is 3, also for the entries that write an onset
\* day next to another flag; so with another flag the pre-melt window is
\* empty; the flag returned is one of 0, 1, 2, 3.
C18_OnsetOnlyWithFlag3 ==
  /\ entries_ok
  /\ returned =>
       /\ ret.DPT_flag \in 0..3
       /\ ret.DPT_flag # 3 =>
            IAOOf(entry) = NaN /\ Window(doy_y, IAOOf(entry)) = {}

\* QAS_L 2010 writes the onset day 129 next to flag 2: the call returned
\* flag 2 and the onset day used is missing, with a row inside (84, 129)
C18_Witness ==
  /\ returned
  /\ site = "QAS_L" /\ y = 2010
  /\ entry.IAO = Num(129)
  /\ ret.DPT_flag = 2
  /\ IAOOf(entry) = NaN
  /\ \E i \in 1..Len(df_y_init) : doy_y[i] = 120

\* C20: a result of DPT_processing with confidence flag 3 and albedo flag 1
\* has a BID: the day of a row of the year, later than the onset day.  So
\* int(BID), behind the test of the two flags in BIC_composite, gets no nan.
C20_BidWithBothFlags ==
  (returned /\ ret.DPT_flag = 3 /\ ret.albedo_flag = 1) =>
    /\ ret.BID # NaN
    /\ \E i \in 1..Len(df_y_init) : doy_y[i] = ret.BID[1]
    /\ ret.BID[1] > entry.IAO[1]

\* NUK_L 2012 (onset day 150) returned flag 3, albedo flag 1 and BID 204,
\* the day of its last row
C20_Witness ==
  /\ returned
  /\ site = "NUK_L" /\ y = 2012
  /\ ret.DPT_flag = 3 /\ ret.albedo_flag = 1
  /\ ret.BID = Num(204)
  /\ doy_y[Len(df_y_init)] = 204

\* C21 as stated: a result with albedo flag 0 has an albedo series that is
\* entirely missing.
C21_NoAlbedoWithFlag0 ==
  (returned /\ ret.albedo_flag = 0) =>
    \A i \in 1..Len(ret.albedo) : ret.albedo[i] = NaN

\* C22: a call of BIC_processing leaves the table passed to it as it was,
\* raw depths and raw albedos included; a call that follows a call, with no
\* load_data in between, returns what that call returned; and every albedo
\* returned is missing or the raw albedo the table holds for that day after
\* the call plus 0.034, the bias applied once.
C22_TableLeftUnchanged ==
  [][CallProcess =>
       /\ promice_data' = promice_data
       /\ processed_last => ret' = ret
       /\ ret'.raised = "" =>
            \A k \in 1..Len(ret'.value.rows) :
              \E j \in 1..Len(promice_data'.rows) :
                /\ promice_data'.rows[j].Year = ret'.value.rows[k].Year
                /\ promice_data'.rows[j].DayOfYear = ret'.value.rows[k].DOY
                /\ ret'.value.rows[k].Albedo_theta_inf_70d \in
                     {NaN} \cup
                     (IF promice_data'.rows[j].Albedo = NaN THEN {}
                      ELSE {Num(promice_data'.rows[j].Albedo[1] + AlbedoBias)})]_vars

\* BIC_processing returned the table of a NUK_L file loaded with 'all': the
\* albedo returned is 0.534 and the table passed still holds 0.5
C22_Witness ==
  /\ processed_last
  /\ ret.raised = ""
  /\ site = "NUK_L" /\ loaded = [site |-> "NUK_L", yr |-> AllYears] /\ yr = AllYears
  /\ promice_data.rows[1].Albedo = Num(500)
  /\ ret.value.rows[1].Albedo_theta_inf_70d = Num(534)
  /\ Len(ret.value.rows) = Len(promice_data.rows)

\* C23 as stated, for load_data: called with a list of years it returns the
\* rows of the file whose Year is in the list (None when there is none).
C23_ListedYears ==
  (loaded_last /\ ret.year.kind = "list") =>
    LET listed == SelectSeq(ret.file.rows, LAMBDA r : r.Year \in days_of(ret.year.v))
    IN /\ ret.raised = ""
       /\ ret.value = IF Len(listed) = 0 THEN NoFrame ELSE Frame(listed)

=============================================================================
